---- MODULE Spec2Model ----
(***************************************************************************)
(* Model of benchmarks/librechat_prompt_builder.py: the prompt assembly    *)
(* engine (LibreChatPromptBuilder) and its request descriptor              *)
(* (PromptRequest).                                                        *)
(*                                                                         *)
(* Texts are sequences of atoms (strings); concatenation of Python strings *)
(* is concatenation of sequences and the empty string is <<>>.  Every      *)
(* newline character of a text is an atom NL of its own and no other atom  *)
(* holds a newline, so a blank line is two consecutive NL atoms.  A Python *)
(* dict is a TLA+ record / function whose DOMAIN is the set of its keys.   *)
(* None and the empty list / empty string are both modelled by <<>> where  *)
(* the code only tests truthiness.  The float temperature 0.7 is the       *)
(* integer 7 (tenths).                                                     *)
(***************************************************************************)
EXTENDS Integers, Sequences, FiniteSets, TLC

(***************************************************************************)
(* Bounds of the model.                                                    *)
(***************************************************************************)
MaxFiles == 2
MaxRagItems == 1
MaxServers == 2
MaxTurns == 3
MaxSources == 2
MaxCalls == 3
MaxMatches == 3
MaxPasses == 2
MaxCallers == 2

(***************************************************************************)
(* Text helpers.                                                           *)
(***************************************************************************)
Range(s) == {s[i] : i \in 1..Len(s)}

\* The newline character, chr(10).
NL == "\n"

\* The separator "\n\n" used by every "\n\n".join(...) of the builder.
SEP == <<NL, NL>>

RECURSIVE JoinWith(_, _)
\* Python's sep.join(parts) for a list of texts, joined half by half.
JoinWith(sep, parts) ==
    IF parts = <<>> THEN <<>>
    ELSE IF Len(parts) = 1 THEN parts[1]
    ELSE JoinWith(sep, SubSeq(parts, 1, Len(parts) \div 2))
         \o sep
         \o JoinWith(sep, SubSeq(parts, Len(parts) \div 2 + 1, Len(parts)))

\* Python's filter(None, components): drops the falsy (empty) texts.
FilterNone(components) == SelectSeq(components, LAMBDA t : t # <<>>)

RECURSIVE Flatten(_)
\* Concatenation of a list of texts (repeated += on a string), half by
\* half.
Flatten(parts) ==
    IF parts = <<>> THEN <<>>
    ELSE IF Len(parts) = 1 THEN parts[1]
    ELSE Flatten(SubSeq(parts, 1, Len(parts) \div 2))
         \o Flatten(SubSeq(parts, Len(parts) \div 2 + 1, Len(parts)))

\* dict.get(key, default)
Get(d, key, default) == IF key \in DOMAIN d THEN d[key] ELSE default

(***************************************************************************)
(* Class constants of LibreChatPromptBuilder.                              *)
(***************************************************************************)
MEMORY_INSTRUCTIONS ==
    <<"The system automatically stores important user information and can update or delete memories based on user requests, enabling dynamic memory management.">>

FILE_SEARCH_BIAS ==
    <<"When files are attached, ALWAYS call the file_search tool first to retrieve the most relevant passages. (...) use multiple references per paragraph when information comes from different sources.">>

\* The built-in policy: a heading, an introduction, four numbered rules and a
\* closing line, separated by blank lines.
WEB_SEARCH_CONTEXT ==
    <<"# web_search (WEB SEARCH) - RULES">> \o SEP
    \o <<"YOU HAVE ACCESS TO A WEB SEARCH TOOL. FOLLOW THESE RULES STRICTLY:">> \o SEP
    \o <<"1. CALL THE TOOL INSTEAD OF DESCRIBING A SEARCH.", NL, "   - (...)">> \o SEP
    \o <<"2. HOW OFTEN TO USE IT", NL, "   - (...)">> \o SEP
    \o <<"3. HOW TO WRITE THE QUERY", NL, "   - (...)">> \o SEP
    \o <<"4. AFTER THE TOOL RETURNS", NL, "   - (...)">> \o SEP
    \o <<"ANSWER IN THE USER LANGUAGE.">>

(***************************************************************************)
(* replace_special_vars                                                    *)
(***************************************************************************)
\* re.IGNORECASE: the case folding of the atoms the model uses.
Lower(atom) ==
    CASE atom = "{{CURRENT_DATE}}" -> "{{current_date}}"
      [] atom = "{{Current_DateTime}}" -> "{{current_datetime}}"
      [] atom = "{{ISO_DATETIME}}" -> "{{iso_datetime}}"
      [] atom = "{{Current_User}}" -> "{{current_user}}"
      [] OTHER -> atom

\* Variant: re.sub with count=1, only the first occurrence is replaced.
ReSubFirstOnly(token, repl, text) ==
    Flatten([i \in 1..Len(text) |->
                IF Lower(text[i]) = token /\ \A j \in 1..(i - 1) : Lower(text[j]) # token
                THEN repl ELSE <<text[i]>>])

\* re.sub(pattern, repl, text, flags=re.IGNORECASE) for a literal token.
ReSub(token, repl, text) ==
    Flatten([i \in 1..Len(text) |->
                IF Lower(text[i]) = token THEN repl ELSE <<text[i]>>])

\* Variant: the weekday number of datetime.weekday() is used as it is.
JsWeekdayNative(weekday) == weekday

\* (weekday + 1) % 7 : Python Monday=0 to JavaScript Sunday=0.
JsWeekday(weekday) == (weekday + 1) % 7

\* now is the value datetime.now() returned: [date, time, iso, weekday].
ReplaceSpecialVars(self, text, now) ==
    IF text = <<>> THEN text
    ELSE
      LET js_weekday == JsWeekday(now.weekday)
          current_date == <<now.date, " (", ToString(js_weekday), ")">>
          current_datetime == <<now.date, " ", now.time, " (", ToString(js_weekday), ")">>
          iso_datetime == <<now.iso>>
          r1 == ReSub("{{current_date}}", current_date, text)
          r2 == ReSub("{{current_datetime}}", current_datetime, r1)
          r3 == ReSub("{{iso_datetime}}", iso_datetime, r2)
          r4 == ReSub("{{current_user}}", self.user_name, r3)
      IN r4

(***************************************************************************)
(* Context formatters.                                                     *)
(***************************************************************************)
\* servers: sequence of MCPServerConfig [server_name, instructions, tools].
\* format_mcp_instructions after the servers were filtered: the block for
\* the servers that have instructions.
FormatMcpInstructionsBlock(servers_with_instructions) ==
    LET formatted == [i \in 1..Len(servers_with_instructions) |->
                        <<"## ", servers_with_instructions[i].server_name,
                          " MCP Server Instructions", NL, NL>>
                        \o servers_with_instructions[i].instructions]
    IN IF servers_with_instructions = <<>> THEN <<>>
       ELSE <<"# MCP Server Instructions", NL, NL,
              "The following MCP servers are available with their specific instructions:", NL, NL>>
            \o JoinWith(<<NL>>, formatted)
            \o <<NL, NL, "Please follow these instructions when using tools from the respective MCP servers.">>

\* Variant: every server gets a sub-section, with or without instructions.
FormatMcpInstructionsEveryServer(servers) == FormatMcpInstructionsBlock(servers)

\* servers_with_instructions = [s for s in servers if s.instructions]
FormatMcpInstructions(servers) ==
    FormatMcpInstructionsBlock(SelectSeq(servers, LAMBDA s : s.instructions # <<>>))

\* format_rag_context after its first statement: header, file list,
\* retrieved context and footer.
FormatRagContextBody(files, context_items) ==
      LET one_file == Len(files) = 1
          header == <<"The user has attached ",
                      IF one_file THEN "a" ELSE ToString(Len(files)),
                      " file", IF one_file THEN "" ELSE "s",
                      " to the conversation:">>
          files_xml ==
              (IF one_file THEN <<>> ELSE <<NL, "<files>">>)
              \o Flatten([i \in 1..Len(files) |->
                    <<NL, "  <file>", NL,
                      "    <filename>", Get(files[i], "filename", "unknown"), "</filename>", NL,
                      "    <type>", Get(files[i], "type", "unknown"), "</type>", NL,
                      "  </file>">>])
              \o (IF one_file THEN <<>> ELSE <<NL, "</files>">>)
          context_xml ==
              Flatten([i \in 1..Len(context_items) |->
                    <<NL, "  <file>", NL,
                      "    <filename>", Get(context_items[i], "filename", "unknown"), "</filename>", NL,
                      "    <context>", NL,
                      "      <contextItem>", NL,
                      "        <![CDATA[", Get(context_items[i], "content", ""), "]]>", NL,
                      "      </contextItem>", NL,
                      "    </context>", NL,
                      "  </file>">>])
          footer == <<"Use the context as your learned knowledge to better answer the user.", NL, NL,
                      "In your response, remember to follow these guidelines:", NL,
                      "- If you don't know the answer, simply say that you don't know.", NL,
                      "- If you are unsure how to answer, ask for clarification.", NL,
                      "- Avoid mentioning that you obtained the information from the context.">>
      IN header \o <<NL>> \o files_xml \o <<NL, NL>>
         \o <<"A semantic search was executed with the user message as the query (...)", NL, NL>>
         \o <<"<context>">> \o context_xml \o <<NL, "</context>", NL, NL>>
         \o footer

\* Variant: without the early return for an empty file list.
FormatRagContextUnguarded(files, context_items) ==
    FormatRagContextBody(files, context_items)

FormatRagContext(files, context_items) ==
    IF files = <<>> THEN <<>>
    ELSE FormatRagContextBody(files, context_items)

FormatFileSearchContext(files) ==
    IF files = <<>>
    THEN <<"- Note: Semantic search is available through the file_search tool but no files are currently loaded.">>
    ELSE <<"- Note: Use the file_search tool to find relevant information within:">>
         \o Flatten([i \in 1..Len(files) |->
               <<NL, "\t- ", Get(files[i], "filename", "unknown"),
                 IF Get(files[i], "just_attached", FALSE)
                 THEN " (just attached by user)" ELSE "">>])

(***************************************************************************)
(* Tool catalog.                                                           *)
(***************************************************************************)
\* Variant: the tool keeps its bare name.
CreateMcpToolBareName(tool_name, server_name, description, parameters) ==
    [type |-> "function",
     function |-> [name |-> tool_name,
                   description |-> description,
                   parameters |-> parameters]]

\* full_name = f"{tool_name}__mcp__{server_name}": the three strings
\* concatenated.
CreateMcpTool(tool_name, server_name, description, parameters) ==
    [type |-> "function",
     function |-> [name |-> tool_name \o "__mcp__" \o server_name,
                   description |-> description,
                   parameters |-> parameters]]

QueryParameters(description) ==
    [type |-> "object",
     properties |-> [query |-> [type |-> "string", description |-> description]],
     required |-> <<"query">>]

CreateFileSearchTool ==
    [type |-> "function",
     function |-> [name |-> "file_search",
                   description |-> "Search through attached files to find relevant information.",
                   parameters |-> QueryParameters("The search query to find relevant content in files")]]

CreateWebSearchTool ==
    [type |-> "function",
     function |-> [name |-> "web_search",
                   description |-> "Search the web for current information. Returns relevant web pages with snippets.",
                   parameters |-> QueryParameters("The search query (3-6 keywords recommended)")]]

(***************************************************************************)
(* Tool result formatters.  A list of lines is a sequence of texts; a line *)
(* that starts with a line break has NL as its first atom.  A blank that   *)
(* may end up at the end of the output is an atom of its own.              *)
(***************************************************************************)
\* The characters str.strip() removes, as atoms.
Whitespace == {NL, " ", "\t", ""}

RECURSIVE LStrip(_)
LStrip(t) ==
    IF t # <<>> /\ t[1] \in Whitespace THEN LStrip(Tail(t)) ELSE t

RECURSIVE RStrip(_)
RStrip(t) ==
    IF t # <<>> /\ t[Len(t)] \in Whitespace
    THEN RStrip(SubSeq(t, 1, Len(t) - 1)) ELSE t

\* str.strip()
Strip(t) == RStrip(LStrip(t))

\* The characters the source writes as "\\ue202" in front of every anchor:
\* a backslash, u, e, 2, 0, 2.
AnchorMark == "\\ue202"

\* The three backquotes that open and close a block of quoted text (the
\* backquote itself cannot be written in a string of this module).
CodeFence == "<three backquotes>"

\* f"{score:.2f}" for a score given in thousandths (850 for 0.85).
FormatScore(score) ==
    LET hundredths == (score + 5) \div 10
    IN ToString(hundredths \div 100) \o "."
       \o ToString((hundredths % 100) \div 10) \o ToString(hundredths % 10)

\* add_section(title): a blank line, the title line, a blank line.
AddSection(lines, title) ==
    lines \o << <<>>, <<"=== ">> \o title \o <<" ===">>, <<>> >>

\* The lines "Summary:", "Date:" and "Source:" of an organic or news item.
SourceDetailLines(source) ==
    (IF source.snippet # <<>> THEN << <<"Summary: ">> \o source.snippet >> ELSE <<>>)
    \o (IF source.date # <<>> THEN << <<"Date: ">> \o source.date >> ELSE <<>>)
    \o (IF source.attribution # <<>> THEN << <<"Source: ">> \o source.attribution >> ELSE <<>>)

\* The lines of the references of one highlight; ref_idx counts from 0
\* within the highlight.
ReferenceLines(turn, references) ==
    Flatten([r \in 1..Len(references) |->
        << <<"- link#", ToString(r), ": ">> \o Get(references[r], "url", <<>>),
           <<"\t", "- Anchor: ", AnchorMark, "turn", ToString(turn),
             "ref", ToString(r - 1)>> >>])

\* The body of "for h_idx, highlight in enumerate(source.highlights)" for
\* the h-th highlight (h = h_idx + 1) of count.
HighlightLines(turn, h, highlight, count) ==
    << <<"### Highlight ", ToString(h), " [Relevance: ",
         FormatScore(highlight.score), "]">>,
       <<>>,
       <<CodeFence, "text">>,
       Strip(highlight.text),
       <<CodeFence>>,
       <<>> >>
    \o (IF highlight.references # <<>>
        THEN << <<"Core References:">> >>
             \o ReferenceLines(turn, highlight.references)
             \o << <<>> >>
        ELSE <<>>)
    \o (IF h - 1 < count - 1 THEN << <<"---">>, <<>> >> ELSE <<>>)

\* The body of "for i, source in enumerate(result.organic)" for the item
\* at position i (from 0).
OrganicSourceLines(turn, i, source) ==
    << <<"# Search ", ToString(i), ": \"">>
          \o (IF source.title # <<>> THEN source.title ELSE <<"(no title)">>)
          \o <<"\"">>,
       <<NL, "Anchor: ", AnchorMark, "turn", ToString(turn), "search", ToString(i)>>,
       <<"URL:", " ">> \o source.link >>
    \o SourceDetailLines(source)
    \o (IF source.highlights # <<>>
        THEN << <<NL, "## Highlights">>, <<>> >>
             \o Flatten([h \in 1..Len(source.highlights) |->
                    HighlightLines(turn, h, source.highlights[h],
                                   Len(source.highlights))])
        ELSE <<>>)
    \o << <<>> >>

\* Variant: a news item gets an anchor of the kind "search".
NewsSourceLinesSearchAnchor(turn, i, source) ==
    << <<"# News ", ToString(i), ": \"">>
          \o (IF source.title # <<>> THEN source.title ELSE <<"(no title)">>)
          \o <<"\"">>,
       <<NL, "Anchor: ", AnchorMark, "turn", ToString(turn), "search", ToString(i)>>,
       <<"URL:", " ">> \o source.link >>
    \o SourceDetailLines(source)
    \o << <<>> >>

\* The body of "for i, source in enumerate(result.top_stories)".
NewsSourceLines(turn, i, source) ==
    << <<"# News ", ToString(i), ": \"">>
          \o (IF source.title # <<>> THEN source.title ELSE <<"(no title)">>)
          \o <<"\"">>,
       <<NL, "Anchor: ", AnchorMark, "turn", ToString(turn), "news", ToString(i)>>,
       <<"URL:", " ">> \o source.link >>
    \o SourceDetailLines(source)
    \o << <<>> >>

\* "if kg.get(key): output_lines.append(f"{label}{kg[key]}")" for each of
\* the pairs <<key, label>> in turn.
LabelledLines(d, pairs) ==
    Flatten([k \in 1..Len(pairs) |->
        IF Get(d, pairs[k][1], <<>>) # <<>>
        THEN << <<pairs[k][2]>> \o d[pairs[k][1]] >> ELSE <<>>])

\* The body of "for i, paa in enumerate(result.people_also_ask)" for the
\* q-th entry (q = i + 1).
QuestionLines(q, paa) ==
    << <<"### Question ", ToString(q), ":">>,
       <<"\"">> \o Get(paa, "question", <<>>) \o <<"\"">> >>
    \o LabelledLines(paa, << <<"snippet", "Snippet: ">>, <<"title", "Title: ">>,
                            <<"link", "Link: ">> >>)
    \o << <<>> >>

\* The five "if result.<category>:" blocks of format_web_search_result, each
\* appending to the lines gathered so far.
OrganicBlock(lines, turn, result) ==
    IF result.organic # <<>>
    THEN AddSection(lines, <<"Web Results, Turn ", ToString(turn)>>)
         \o Flatten([k \in 1..Len(result.organic) |->
                OrganicSourceLines(turn, k - 1, result.organic[k])])
    ELSE lines

NewsBlock(lines, turn, result) ==
    IF result.top_stories # <<>>
    THEN AddSection(lines, <<"News Results">>)
         \o Flatten([k \in 1..Len(result.top_stories) |->
                NewsSourceLines(turn, k - 1, result.top_stories[k])])
    ELSE lines

KnowledgeGraphBlock(lines, result) ==
    IF DOMAIN result.knowledge_graph # {}
    THEN AddSection(lines, <<"Knowledge Graph">>)
         \o LabelledLines(result.knowledge_graph,
                          << <<"title", "**Title:** ">>, <<"type", "**Type:** ">>,
                             <<"description", "**Description:** ">>,
                             <<"website", "**Website:** ">> >>)
         \o << <<>> >>
    ELSE lines

AnswerBoxBlock(lines, result) ==
    IF DOMAIN result.answer_box # {}
    THEN AddSection(lines, <<"Answer Box">>)
         \o LabelledLines(result.answer_box,
                          << <<"title", "**Title:** ">>, <<"snippet", "**Snippet:** ">>,
                             <<"link", "**Link:** ">> >>)
         \o << <<>> >>
    ELSE lines

PeopleAlsoAskBlock(lines, result) ==
    IF result.people_also_ask # <<>>
    THEN AddSection(lines, <<"People Also Ask">>)
         \o Flatten([q \in 1..Len(result.people_also_ask) |->
                QuestionLines(q, result.people_also_ask[q])])
    ELSE lines

\* Variant: the news block comes before the organic block.
WebSearchLinesNewsFirst(lines, turn, result) ==
    PeopleAlsoAskBlock(
        AnswerBoxBlock(
            KnowledgeGraphBlock(
                OrganicBlock(NewsBlock(lines, turn, result), turn, result),
                result),
            result),
        result)

\* output_lines after the five blocks, starting from the list lines.
WebSearchLines(lines, turn, result) ==
    PeopleAlsoAskBlock(
        AnswerBoxBlock(
            KnowledgeGraphBlock(
                NewsBlock(OrganicBlock(lines, turn, result), turn, result),
                result),
            result),
        result)

\* The k-th of the five blocks of format_web_search_result, in the order
\* of the source.
WebSearchBlock(k, lines, turn, result) ==
    CASE k = 1 -> OrganicBlock(lines, turn, result)
      [] k = 2 -> NewsBlock(lines, turn, result)
      [] k = 3 -> KnowledgeGraphBlock(lines, result)
      [] k = 4 -> AnswerBoxBlock(lines, result)
      [] OTHER -> PeopleAlsoAskBlock(lines, result)

\* Variant: self.output_lines, one list on the instance for the calls of
\* every caller (kept in the first frame).
OutputLinesFrameOnInstance(c) == 1

\* The frame that holds the list output_lines of the call made by caller
\* c: output_lines is a local variable, so each call has a list of its own.
OutputLinesFrame(c) == c

\* Variant: the list of an earlier call is kept.
KeptOutputLines(previous) == previous

\* output_lines = []: every call starts from an empty list, whatever the
\* list of an earlier call held.
NewOutputLines(previous) == <<>>

\* return "\n".join(output_lines).strip()
JoinedAndStripped(output_lines) == Strip(JoinWith(<<NL>>, output_lines))

\* format_web_search_result(turn, result)
FormatWebSearchResult(turn, result) ==
    JoinedAndStripped(WebSearchLines(NewOutputLines(<<>>), turn, result))

\* The body of "for i, match in enumerate(result.matches, 1)" for the
\* i-th match (from 1).
MatchLines(i, match) ==
    LET location == IF match.page # <<>>
                    THEN <<" (page ">> \o match.page \o <<")">> ELSE <<>>
    IN << <<"[", ToString(i), "] From: ">> \o match.filename \o location,
          <<"Relevance: ", FormatScore(match.relevance)>>,
          <<"\"">> \o match.content \o <<"\"">>,
          <<>> >>

\* Variant: the blocks are numbered from 0.
FileSearchLinesFromZero(matches) ==
    << <<"Found ", ToString(Len(matches)), " relevant passages:">>, <<>> >>
    \o Flatten([i \in 1..Len(matches) |-> MatchLines(i - 1, matches[i])])

\* output_lines of format_file_search_result for a non-empty match list.
FileSearchLines(matches) ==
    << <<"Found ", ToString(Len(matches)), " relevant passages:">>, <<>> >>
    \o Flatten([i \in 1..Len(matches) |-> MatchLines(i, matches[i])])

\* format_file_search_result(result)
FormatFileSearchResult(result) ==
    IF result.matches = <<>>
    THEN <<"No relevant passages found in the attached files.">>
    ELSE JoinedAndStripped(FileSearchLines(result.matches))

(***************************************************************************)
(* PromptRequest and the four scenario builders.                           *)
(***************************************************************************)
PromptRequest(system_prompt, messages, tools, model, temperature) ==
    [system_prompt |-> system_prompt,
     messages |-> messages,
     tools |-> tools,
     model |-> model,
     temperature |-> temperature]

\* Variant: no system message when there is no system text.
InitialMessagesSkipEmptySystem(system_prompt, user_message) ==
    IF system_prompt = <<>>
    THEN <<[role |-> "user", content |-> user_message]>>
    ELSE <<[role |-> "system", content |-> system_prompt],
           [role |-> "user", content |-> user_message]>>

\* The message list every scenario builder starts the conversation with.
InitialMessages(system_prompt, user_message) ==
    <<[role |-> "system", content |-> system_prompt],
      [role |-> "user", content |-> user_message]>>

\* Variant: only the servers that have instructions contribute tools.
ExtendWithInstructedServerTools(tools, mcp_servers) ==
    tools \o Flatten([i \in 1..Len(mcp_servers) |->
                        IF mcp_servers[i].instructions # <<>>
                        THEN mcp_servers[i].tools ELSE <<>>])

\* tools = []; for server in mcp_servers: tools.extend(server.tools)
ExtendWithServerTools(tools, mcp_servers) ==
    tools \o Flatten([i \in 1..Len(mcp_servers) |-> mcp_servers[i].tools])

\* Variant: "\n\n".join(components), empty components kept.
JoinComponentsUnfiltered(components) == JoinWith(SEP, components)

\* system_prompt = "\n\n".join(filter(None, components))
JoinComponents(components) == JoinWith(SEP, FilterNone(components))

FilesComponents(self, files, rag_context_items, agent_instructions, now) ==
    <<FILE_SEARCH_BIAS>>
    \o (IF rag_context_items # <<>>
        THEN <<FormatRagContext(files, rag_context_items)>> ELSE <<>>)
    \o (IF agent_instructions # <<>>
        THEN <<ReplaceSpecialVars(self, agent_instructions, now)>> ELSE <<>>)
    \o <<FormatFileSearchContext(files)>>

BuildFilesPrompt(self, user_message, files, rag_context_items, agent_instructions, model, temperature, now) ==
    LET components == FilesComponents(self, files, rag_context_items, agent_instructions, now)
        system_prompt == JoinComponents(components)
        messages == InitialMessages(system_prompt, user_message)
        tools == <<CreateFileSearchTool>>
    IN PromptRequest(system_prompt, messages, tools, model, temperature)

McpComponents(self, mcp_servers, agent_instructions, now) ==
    LET mcp_instructions == FormatMcpInstructions(mcp_servers)
    IN (IF agent_instructions # <<>>
        THEN <<ReplaceSpecialVars(self, agent_instructions, now)>> ELSE <<>>)
       \o (IF mcp_instructions # <<>> THEN <<mcp_instructions>> ELSE <<>>)

BuildMcpPrompt(self, user_message, mcp_servers, agent_instructions, model, temperature, now) ==
    LET components == McpComponents(self, mcp_servers, agent_instructions, now)
        system_prompt == JoinComponents(components)
        messages == InitialMessages(system_prompt, user_message)
        tools == ExtendWithServerTools(<<>>, mcp_servers)
    IN PromptRequest(system_prompt, messages, tools, model, temperature)

\* Variant: the built-in policy is used whatever the caller passes.
WebSearchComponentsBuiltInPolicy(self, agent_instructions, custom_web_search_context, now) ==
    (IF agent_instructions # <<>>
     THEN <<ReplaceSpecialVars(self, agent_instructions, now)>> ELSE <<>>)
    \o <<WEB_SEARCH_CONTEXT>>

WebSearchComponents(self, agent_instructions, custom_web_search_context, now) ==
    LET web_context == IF custom_web_search_context # <<>>
                       THEN custom_web_search_context ELSE WEB_SEARCH_CONTEXT
    IN (IF agent_instructions # <<>>
        THEN <<ReplaceSpecialVars(self, agent_instructions, now)>> ELSE <<>>)
       \o <<web_context>>

BuildWebSearchPrompt(self, user_message, agent_instructions, custom_web_search_context, model, temperature, now) ==
    LET components == WebSearchComponents(self, agent_instructions,
                                          custom_web_search_context, now)
        system_prompt == JoinComponents(components)
        messages == InitialMessages(system_prompt, user_message)
        tools == <<CreateWebSearchTool>>
    IN PromptRequest(system_prompt, messages, tools, model, temperature)

\* Variant: the files are not looked at.
UiAgentFileSearchFiresWithoutFiles(agent, files) ==
    "file_search" \in Range(agent.tools)

\* The file_search sub-part of the tool contexts (and of the tool list).
UiAgentFileSearchFires(agent, files) ==
    "file_search" \in Range(agent.tools) /\ files # <<>>

\* The web_search sub-part of the tool contexts (and of the tool list).
UiAgentWebSearchFires(agent, web_search_enabled) ==
    web_search_enabled \/ "web_search" \in Range(agent.tools)

UiAgentToolContexts(agent, files, web_search_enabled) ==
    (IF UiAgentFileSearchFires(agent, files)
     THEN <<FormatFileSearchContext(files)>> ELSE <<>>)
    \o (IF UiAgentWebSearchFires(agent, web_search_enabled)
        THEN <<WEB_SEARCH_CONTEXT>> ELSE <<>>)

UiAgentMemorySection(agent) ==
    MEMORY_INSTRUCTIONS \o <<NL, NL, "# Existing memory about the user:", NL>>
    \o agent.memory_data

UiAgentComponents(self, agent, files, rag_context_items, mcp_servers, web_search_enabled, now) ==
    LET has_file_search == "file_search" \in Range(agent.tools)
        has_files == files # <<>>
        tool_contexts == UiAgentToolContexts(agent, files, web_search_enabled)
        mcp_instructions == FormatMcpInstructions(mcp_servers)
    IN (IF tool_contexts # <<>> THEN <<JoinWith(SEP, tool_contexts)>> ELSE <<>>)
       \o (IF has_files /\ has_file_search THEN <<FILE_SEARCH_BIAS>> ELSE <<>>)
       \o (IF rag_context_items # <<>> /\ files # <<>>
           THEN <<FormatRagContext(files, rag_context_items)>> ELSE <<>>)
       \o (IF agent.instructions # <<>>
           THEN <<ReplaceSpecialVars(self, agent.instructions, now)>> ELSE <<>>)
       \o (IF agent.additional_instructions # <<>>
           THEN <<agent.additional_instructions>> ELSE <<>>)
       \o (IF mcp_servers # <<>> /\ mcp_instructions # <<>>
           THEN <<mcp_instructions>> ELSE <<>>)
       \o (IF agent.memory_enabled /\ agent.memory_data # <<>>
           THEN <<UiAgentMemorySection(agent)>> ELSE <<>>)

\* Variant: the server tools come first.
UiAgentToolsServersFirst(agent, files, mcp_servers, web_search_enabled) ==
    LET builtin == (IF UiAgentFileSearchFires(agent, files)
                    THEN <<CreateFileSearchTool>> ELSE <<>>)
                   \o (IF UiAgentWebSearchFires(agent, web_search_enabled)
                       THEN <<CreateWebSearchTool>> ELSE <<>>)
    IN IF mcp_servers # <<>> THEN ExtendWithServerTools(<<>>, mcp_servers) \o builtin
       ELSE builtin

UiAgentTools(agent, files, mcp_servers, web_search_enabled) ==
    LET builtin == (IF UiAgentFileSearchFires(agent, files)
                    THEN <<CreateFileSearchTool>> ELSE <<>>)
                   \o (IF UiAgentWebSearchFires(agent, web_search_enabled)
                       THEN <<CreateWebSearchTool>> ELSE <<>>)
    IN IF mcp_servers # <<>> THEN ExtendWithServerTools(builtin, mcp_servers)
       ELSE builtin

BuildUiAgentPrompt(self, user_message, agent, files, rag_context_items, mcp_servers, web_search_enabled, model, temperature, now) ==
    LET components == UiAgentComponents(self, agent, files, rag_context_items,
                                        mcp_servers, web_search_enabled, now)
        system_prompt == JoinComponents(components)
        messages == InitialMessages(system_prompt, user_message)
        tools == UiAgentTools(agent, files, mcp_servers, web_search_enabled)
    IN PromptRequest(system_prompt, messages, tools, model, temperature)

\* The value of a descriptor variable that holds no descriptor.
NoRequest == PromptRequest(<<>>, <<>>, <<>>, "", 0)

\* Variant: the last branch is taken for every tag that is not files, mcp
\* or web_search, and nothing is raised.
BuildRequestResultNoElse(self, c) ==
    IF c.scenario = "files" THEN
        [raised |-> FALSE,
         value |-> BuildFilesPrompt(self, c.user_message, c.files, c.rag_context_items,
                                    c.agent_instructions, c.model, c.temperature, c.now)]
    ELSE IF c.scenario = "mcp" THEN
        [raised |-> FALSE,
         value |-> BuildMcpPrompt(self, c.user_message, c.mcp_servers,
                                  c.agent_instructions, c.model, c.temperature, c.now)]
    ELSE IF c.scenario = "web_search" THEN
        [raised |-> FALSE,
         value |-> BuildWebSearchPrompt(self, c.user_message, c.agent_instructions,
                                        c.custom_web_search_context,
                                        c.model, c.temperature, c.now)]
    ELSE
        [raised |-> FALSE,
         value |-> BuildUiAgentPrompt(self, c.user_message, c.agent, c.files,
                                      c.rag_context_items, c.mcp_servers,
                                      c.web_search_enabled, c.model, c.temperature, c.now)]

\* build_request: the dispatch on the scenario tag.  c holds the arguments
\* (with the defaults of config.get filled in) and the clock reading.  The
\* result is [raised, value]: raised for the ValueError of the last branch.
BuildRequestResult(self, c) ==
    IF c.scenario = "files" THEN
        [raised |-> FALSE,
         value |-> BuildFilesPrompt(self, c.user_message, c.files, c.rag_context_items,
                                    c.agent_instructions, c.model, c.temperature, c.now)]
    ELSE IF c.scenario = "mcp" THEN
        [raised |-> FALSE,
         value |-> BuildMcpPrompt(self, c.user_message, c.mcp_servers,
                                  c.agent_instructions, c.model, c.temperature, c.now)]
    ELSE IF c.scenario = "web_search" THEN
        [raised |-> FALSE,
         value |-> BuildWebSearchPrompt(self, c.user_message, c.agent_instructions,
                                        c.custom_web_search_context,
                                        c.model, c.temperature, c.now)]
    ELSE IF c.scenario = "ui_agent" THEN
        [raised |-> FALSE,
         value |-> BuildUiAgentPrompt(self, c.user_message, c.agent, c.files,
                                      c.rag_context_items, c.mcp_servers,
                                      c.web_search_enabled, c.model, c.temperature, c.now)]
    ELSE [raised |-> TRUE, value |-> NoRequest]

(***************************************************************************)
(* Multi-turn conversation builder.                                        *)
(***************************************************************************)
\* json.dumps of an argument mapping, given as a sequence of <<key, value>>
\* pairs of strings in insertion order.
JsonDumps(arguments) ==
    <<"{">>
    \o JoinWith(<<", ">>, [i \in 1..Len(arguments) |->
            <<"\"", arguments[i][1], "\": \"", arguments[i][2], "\"">>])
    \o <<"}">>

CreateToolResultMessage(tool_call_id, content) ==
    [role |-> "tool", content |-> content, tool_call_id |-> tool_call_id]

\* Variant: only the first invocation is translated.
CreateAssistantToolCallMessageFirstOnly(tool_calls, content) ==
    [role |-> "assistant",
     content |-> content,
     tool_calls |-> <<[id |-> tool_calls[1].id,
                       type |-> "function",
                       function |-> [name |-> tool_calls[1].name,
                                     arguments |-> JsonDumps(tool_calls[1].arguments)]]>>]

CreateAssistantToolCallMessage(tool_calls, content) ==
    [role |-> "assistant",
     content |-> content,
     tool_calls |-> [i \in 1..Len(tool_calls) |->
                       [id |-> tool_calls[i].id,
                        type |-> "function",
                        function |-> [name |-> tool_calls[i].name,
                                      arguments |-> JsonDumps(tool_calls[i].arguments)]]]]

\* Variant: a final else branch appends an empty assistant message.
TurnMessagesWithElse(turn) ==
    IF "tool_calls" \in DOMAIN turn THEN
        <<CreateAssistantToolCallMessage(turn["tool_calls"], Get(turn, "content", <<>>))>>
    ELSE IF "tool_result" \in DOMAIN turn THEN
        <<CreateToolResultMessage(turn["tool_result"]["tool_call_id"],
                                  turn["tool_result"]["content"])>>
    ELSE IF "assistant" \in DOMAIN turn THEN
        <<[role |-> "assistant", content |-> turn["assistant"]]>>
    ELSE <<[role |-> "assistant", content |-> <<>>]>>

\* Variant: a fourth branch turns a directive with the key user into a
\* user message.
TurnMessagesWithUser(turn) ==
    IF "tool_calls" \in DOMAIN turn THEN
        <<CreateAssistantToolCallMessage(turn["tool_calls"], Get(turn, "content", <<>>))>>
    ELSE IF "tool_result" \in DOMAIN turn THEN
        <<CreateToolResultMessage(turn["tool_result"]["tool_call_id"],
                                  turn["tool_result"]["content"])>>
    ELSE IF "assistant" \in DOMAIN turn THEN
        <<[role |-> "assistant", content |-> turn["assistant"]]>>
    ELSE IF "user" \in DOMAIN turn THEN
        <<[role |-> "user", content |-> turn["user"]]>>
    ELSE <<>>

\* Variant: three independent if statements, one message for each key the
\* directive carries.
TurnMessagesEveryKey(turn) ==
    (IF "tool_calls" \in DOMAIN turn
     THEN <<CreateAssistantToolCallMessage(turn["tool_calls"], Get(turn, "content", <<>>))>>
     ELSE <<>>)
    \o (IF "tool_result" \in DOMAIN turn
        THEN <<CreateToolResultMessage(turn["tool_result"]["tool_call_id"],
                                       turn["tool_result"]["content"])>>
        ELSE <<>>)
    \o (IF "assistant" \in DOMAIN turn
        THEN <<[role |-> "assistant", content |-> turn["assistant"]]>>
        ELSE <<>>)

\* The if / elif / elif chain of the loop body: the messages one turn
\* appends (one message, or none for an unrecognised turn).
TurnMessages(turn) ==
    IF "tool_calls" \in DOMAIN turn THEN
        <<CreateAssistantToolCallMessage(turn["tool_calls"], Get(turn, "content", <<>>))>>
    ELSE IF "tool_result" \in DOMAIN turn THEN
        <<CreateToolResultMessage(turn["tool_result"]["tool_call_id"],
                                  turn["tool_result"]["content"])>>
    ELSE IF "assistant" \in DOMAIN turn THEN
        <<[role |-> "assistant", content |-> turn["assistant"]]>>
    ELSE <<>>

\* Variant: a tool message is appended only when its tool_call_id is the id
\* of an invocation in an earlier message.
AppendMessagesValidated(h, new) ==
    LET ids == UNION {{m.tool_calls[i].id : i \in 1..Len(m.tool_calls)} :
                        m \in {x \in Range(h.messages) : "tool_calls" \in DOMAIN x}}
        kept == SelectSeq(new, LAMBDA m : "tool_call_id" \in DOMAIN m => m.tool_call_id \in ids)
    IN [messages |-> h.messages \o kept, initial |-> h.initial]

\* Variant: messages = initial_request.messages, without the copy: both
\* names denote one list.
AppendMessagesShared(h, new) ==
    [messages |-> h.messages \o new,
     initial |-> [h.initial EXCEPT !.messages = @ \o new]]

\* Variant: messages.insert(2, ...), the newest message first.
AppendMessagesNewestFirst(h, new) ==
    [messages |-> SubSeq(h.messages, 1, 2) \o new
                  \o SubSeq(h.messages, 3, Len(h.messages)),
     initial |-> h.initial]

\* messages.append(...) on the local list, which is a copy
\* (initial_request.messages.copy()): the list held by the initial request
\* is another object and keeps its contents.  h = [messages, initial].
AppendMessages(h, new) ==
    [messages |-> h.messages \o new, initial |-> h.initial]

\* Variant: model and temperature left to the defaults of PromptRequest.
ExtendedRequestDefaults(initial, msgs) ==
    PromptRequest(initial.system_prompt, msgs, initial.tools, "gpt-4", 7)

\* Variant: the tools are left to the default of PromptRequest, an empty
\* list.
ExtendedRequestNoTools(initial, msgs) ==
    PromptRequest(initial.system_prompt, msgs, <<>>,
                  initial.model, initial.temperature)

\* The return statement of build_multi_turn_request.
ExtendedRequest(initial, msgs) ==
    PromptRequest(initial.system_prompt, msgs, initial.tools,
                  initial.model, initial.temperature)

\* The messages the loop of build_multi_turn_request appends for a list of
\* directives, in order.
RECURSIVE MessagesOfTurns(_)
MessagesOfTurns(ts) ==
    IF ts = <<>> THEN <<>> ELSE TurnMessages(Head(ts)) \o MessagesOfTurns(Tail(ts))

\* build_multi_turn_request(initial_request, turns), run from entry to
\* return without interruption.
BuildMultiTurnRequest(initial_request, ts) ==
    ExtendedRequest(initial_request,
                    AppendMessages([messages |-> initial_request.messages,
                                    initial |-> initial_request],
                                   MessagesOfTurns(ts)).messages)

\* Variant: tools and tool_choice are always part of the dict.
ToOpenAiFormatAlwaysTools(r) ==
    [model |-> r.model, messages |-> r.messages, temperature |-> r.temperature,
     tools |-> r.tools, tool_choice |-> "auto"]

\* PromptRequest.to_openai_format(): "if self.tools:" adds the two keys.
ToOpenAiFormat(r) ==
    IF r.tools # <<>>
    THEN [model |-> r.model, messages |-> r.messages, temperature |-> r.temperature,
          tools |-> r.tools, tool_choice |-> "auto"]
    ELSE [model |-> r.model, messages |-> r.messages, temperature |-> r.temperature]

(***************************************************************************)
(* Inputs.                                                                 *)
(***************************************************************************)
UserNames == {<<"User">>, <<>>}

InstructionChoices ==
    {<<>>,
     <<"You are a helpful assistant.">>,
     <<"{{current_user}}">>,
     <<NL, NL, "Today is ", "{{current_date}}", ".">>}

AdditionalInstructionChoices == {<<>>, <<"Use artifacts for long code.">>}

CustomWebSearchContextChoices == {<<>>, <<"Search at most once.">>}

MemoryDataChoices == {<<>>, <<"The user lives in Rotterdam.">>}

ToolTagChoices ==
    {<<>>, <<"file_search">>, <<"web_search">>, <<"file_search", "web_search">>}

\* The call arguments every scenario shares (user message, model,
\* temperature) and the value datetime.now() has during the call: the
\* defaults on a Sunday (Python weekday 6) and other values on a Monday
\* (Python weekday 0).
CallChoices ==
    {[user_message |-> <<"What are the radiation protection requirements?">>,
      model |-> "gpt-4", temperature |-> 7,
      now |-> [date |-> "2024-01-07", time |-> "09:30:00",
               iso |-> "2024-01-07T09:30:00.123456", weekday |-> 6]],
     [user_message |-> <<"Summarise the report.">>,
      model |-> "gpt-4o-mini", temperature |-> 0,
      now |-> [date |-> "2024-01-08", time |-> "23:59:59",
               iso |-> "2024-01-08T23:59:59.000001", weekday |-> 0]]}

\* The i-th attached file: flagged, unflagged, and one without a filename.
FileAt(i) ==
    CASE i % 3 = 1 -> [filename |-> "report.pdf", type |-> "application/pdf",
                       just_attached |-> TRUE]
      [] i % 3 = 2 -> [filename |-> "notes.txt", type |-> "text/plain"]
      [] OTHER -> [type |-> "image/png", just_attached |-> FALSE]

FileLists == {[i \in 1..n |-> FileAt(i)] : n \in 0..MaxFiles}

RagItemAt(i) ==
    IF i % 2 = 1 THEN [filename |-> "report.pdf", content |-> "Dose limits are ..."]
    ELSE [content |-> "Section 2 ..."]

RagLists == {[i \in 1..n |-> RagItemAt(i)] : n \in 0..MaxRagItems}

NoParameters == [type |-> "object", properties |-> <<>>, required |-> <<>>]

\* Three servers: two that offer a tool of the same name, one of them
\* without instructions, and one whose tool entry was supplied as a plain
\* schema record.
ServerPool ==
    {[server_name |-> "alpha",
      instructions |-> <<"Cite every document you use.">>,
      tools |-> <<CreateMcpTool("search", "alpha", "Search alpha", NoParameters),
                  CreateMcpTool("fetch", "alpha", "Fetch from alpha", NoParameters)>>],
     [server_name |-> "beta",
      instructions |-> <<>>,
      tools |-> <<CreateMcpTool("search", "beta", "Search beta", NoParameters)>>],
     [server_name |-> "gamma",
      instructions |-> <<"Ask gamma last.">>,
      tools |-> <<[type |-> "function",
                   function |-> [name |-> "search",
                                 description |-> "Search gamma",
                                 parameters |-> NoParameters]]>>]}

\* Lists of up to MaxServers different servers, in every order.
ServerLists ==
    UNION {{sv \in [1..n -> ServerPool] :
               \A i, j \in 1..n : sv[i] = sv[j] => i = j} : n \in 0..MaxServers}

\* AgentConfig()
DefaultAgent ==
    [name |-> "Assistant", instructions |-> <<>>, additional_instructions |-> <<>>,
     tools |-> <<>>, artifacts_enabled |-> FALSE,
     memory_enabled |-> FALSE, memory_data |-> <<>>]

AgentChoices ==
    {[DefaultAgent EXCEPT !.instructions = ins, !.additional_instructions = add,
                          !.tools = tl, !.memory_enabled = me, !.memory_data = md] :
        ins \in InstructionChoices, add \in AdditionalInstructionChoices,
        tl \in ToolTagChoices, me \in BOOLEAN, md \in MemoryDataChoices}

\* The arguments of a build_request call with the defaults of config.get and
\* of the builders filled in, and the clock reading now.
DefaultConfig(scenario, call) ==
    [scenario |-> scenario,
     user_message |-> call.user_message,
     model |-> call.model,
     temperature |-> call.temperature,
     files |-> <<>>,
     rag_context_items |-> <<>>,
     agent_instructions |-> <<>>,
     mcp_servers |-> <<>>,
     custom_web_search_context |-> <<>>,
     agent |-> DefaultAgent,
     web_search_enabled |-> FALSE,
     now |-> call.now]

FilesConfigs ==
    {[DefaultConfig("files", call) EXCEPT
         !.files = fl, !.rag_context_items = rg, !.agent_instructions = ins] :
        call \in CallChoices, fl \in FileLists,
        rg \in RagLists, ins \in InstructionChoices}

McpConfigs ==
    {[DefaultConfig("mcp", call) EXCEPT
         !.mcp_servers = sv, !.agent_instructions = ins] :
        call \in CallChoices, sv \in ServerLists,
        ins \in InstructionChoices}

WebSearchConfigs ==
    {[DefaultConfig("web_search", call) EXCEPT
         !.agent_instructions = ins, !.custom_web_search_context = cw] :
        call \in CallChoices, ins \in InstructionChoices,
        cw \in CustomWebSearchContextChoices}

UiAgentConfigs ==
    {[DefaultConfig("ui_agent", call) EXCEPT
         !.agent = ag, !.files = fl, !.rag_context_items = rg,
         !.mcp_servers = sv, !.web_search_enabled = ws] :
        call \in CallChoices, ag \in AgentChoices,
        fl \in FileLists, rg \in RagLists, sv \in ServerLists, ws \in BOOLEAN}

UnknownConfigs ==
    {DefaultConfig(sc, call) : sc \in {"agent", ""}, call \in CallChoices}

\* The configurations whose descriptors the multi-turn builder extends: one
\* or two of each scenario.
CoreConfigs ==
    LET call1 == CHOOSE c \in CallChoices : c.model = "gpt-4"
        call2 == CHOOSE c \in CallChoices : c.model # "gpt-4"
        alpha == CHOOSE sv \in ServerPool : sv.server_name = "alpha"
        beta == CHOOSE sv \in ServerPool : sv.server_name = "beta"
    IN {[DefaultConfig("files", call1) EXCEPT
            !.files = <<FileAt(1)>>, !.rag_context_items = <<RagItemAt(1)>>,
            !.agent_instructions = <<"You are a helpful assistant.">>],
        [DefaultConfig("mcp", call2) EXCEPT !.mcp_servers = <<alpha, beta>>],
        DefaultConfig("web_search", call1),
        [DefaultConfig("ui_agent", call2) EXCEPT
            !.agent = [DefaultAgent EXCEPT !.tools = <<"file_search", "web_search">>,
                                           !.instructions = <<"{{current_user}}">>],
            !.files = <<FileAt(1), FileAt(2)>>]}

\* ToolCall(id, name, arguments)
ToolCall1 == [id |-> "call_1", name |-> "web_search",
              arguments |-> <<<<"query", "weather Rotterdam">>>>]

ToolCall2 == [id |-> "call_2", name |-> "file_search",
              arguments |-> <<<<"query", "dose limits">>, <<"lang", "nl">>>>]

\* Turn directives: the three documented shapes, a tool result whose id no
\* call carries, a dict with none of the three keys and dicts with two.
DirectivePool ==
    {[tool_calls |-> <<ToolCall1>>],
     [tool_calls |-> <<ToolCall1, ToolCall2>>, content |-> <<"Let me look that up.">>],
     [tool_result |-> [tool_call_id |-> "call_1",
                       content |-> <<"=== Web Results, Turn 0 ===">>]],
     [tool_result |-> [tool_call_id |-> "call_7", content |-> <<>>]],
     [assistant |-> <<"The weather in Rotterdam is mild.">>],
     [user |-> <<"And tomorrow?">>],
     [tool_calls |-> <<ToolCall2>>, assistant |-> <<"Searching the files.">>],
     [tool_result |-> [tool_call_id |-> "call_2", content |-> <<"Found 1 relevant passages:">>],
      assistant |-> <<"Done.">>]}

Configs == FilesConfigs \cup McpConfigs \cup WebSearchConfigs
           \cup UiAgentConfigs \cup UnknownConfigs

\* The i-th search hit: one with a summary and two highlights (the first
\* with two references, one of them without a url), one without a title
\* but with date and attribution, and one without a link whose only
\* highlight has no references.  Scores are in thousandths.
SourceAt(i) ==
    CASE i % 3 = 1 ->
            [title |-> <<"Dose limits">>, link |-> <<"https://a.example/dose">>,
             snippet |-> <<"Limits for workers.">>, date |-> <<>>, attribution |-> <<>>,
             highlights |->
                <<[text |-> <<" ", "Workers: 20 mSv per year.", NL>>, score |-> 850,
                   references |-> <<[url |-> <<"https://a.example/ref-a">>],
                                    [title |-> <<"Annex">>]>>],
                  [text |-> <<"Public: 1 mSv per year.">>, score |-> 914,
                   references |-> <<[url |-> <<"https://a.example/ref-b">>]>>]>>]
      [] i % 3 = 2 ->
            [title |-> <<>>, link |-> <<"https://b.example/news">>,
             snippet |-> <<>>, date |-> <<"2024-05-01">>, attribution |-> <<"ANVS">>,
             highlights |-> <<>>]
      [] OTHER ->
            [title |-> <<"IAEA safety standards">>, link |-> <<>>,
             snippet |-> <<>>, date |-> <<>>, attribution |-> <<>>,
             highlights |-> <<[text |-> <<"GSR Part 3">>, score |-> 1000,
                               references |-> <<>>]>>]

\* Lists of up to MaxSources different hits, in every order.
SourceLists ==
    UNION {{sl \in [1..n -> {SourceAt(i) : i \in 1..MaxSources}] :
               \A i, j \in 1..n : sl[i] = sl[j] => i = j} : n \in 0..MaxSources}

\* knowledge_graph: the empty dict, one with the four keys that are
\* rendered, and one with none of them.
KnowledgeGraphChoices ==
    {<<>>,
     [title |-> <<"ANVS">>, type |-> <<"Regulator">>,
      description |-> <<"Dutch nuclear safety authority.">>,
      website |-> <<"https://anvs.example">>],
     [image |-> <<"logo.png">>]}

AnswerBoxChoices ==
    {<<>>,
     [title |-> <<"Annual limit">>, snippet |-> <<"20 mSv">>,
      link |-> <<"https://a.example/answer">>]}

PeopleAlsoAskChoices ==
    {<<>>,
     <<[question |-> <<"What is a sievert?">>, snippet |-> <<"A unit of dose.">>,
        title |-> <<"Units">>, link |-> <<"https://a.example/units">>]>>,
     <<[question |-> <<"What is a sievert?">>],
       [snippet |-> <<"No question given.">>]>>}

\* WebSearchResult(...)
WebSearchResults ==
    {[organic |-> og, top_stories |-> ts, knowledge_graph |-> kg,
      answer_box |-> ab, people_also_ask |-> pa] :
        og \in SourceLists, ts \in SourceLists, kg \in KnowledgeGraphChoices,
        ab \in AnswerBoxChoices, pa \in PeopleAlsoAskChoices}

\* WebSearchResult(): every category empty.
EmptyWebSearchResult ==
    [organic |-> <<>>, top_stories |-> <<>>, knowledge_graph |-> <<>>,
     answer_box |-> <<>>, people_also_ask |-> <<>>]

\* The results a caller formats again and again: nothing, one hit, and
\* news next to a knowledge graph.
RepeatedResults ==
    {EmptyWebSearchResult,
     [EmptyWebSearchResult EXCEPT !.organic = <<SourceAt(1)>>],
     [EmptyWebSearchResult EXCEPT
        !.top_stories = <<SourceAt(2)>>,
        !.knowledge_graph = [title |-> <<"ANVS">>]]}

\* turn: the number of the turn the anchors name.
TurnNumbers == {0, 1}

\* The values datetime.now() can return, one for each day of the week of
\* 1 to 7 January 2024: weekday() is 0 on Monday the 1st and 6 on Sunday
\* the 7th.
Clocks ==
    {[date |-> "2024-01-0" \o ToString(w + 1), time |-> "09:30:00",
      iso |-> "2024-01-0" \o ToString(w + 1) \o "T09:30:00.123456",
      weekday |-> w] : w \in 0..6}

\* Display names: the default, the empty name, and names that hold a
\* placeholder themselves.
DisplayNames ==
    UserNames \cup {<<"{{current_date}}">>, <<"{{Current_User}}">>,
                    <<"Ada ", "{{iso_datetime}}">>}

\* Texts handed to replace_special_vars: the empty text, a text without
\* placeholder, each placeholder, placeholders in other letter cases and
\* more than once, and tokens in braces that are no placeholders.
PlaceholderTexts ==
    {<<>>,
     <<"You are a helpful assistant.">>,
     <<"{{current_date}}">>,
     <<"{{current_datetime}}">>,
     <<"{{iso_datetime}}">>,
     <<"{{current_user}}">>,
     <<"Today is ", "{{CURRENT_DATE}}", ", now ", "{{Current_DateTime}}", ".">>,
     <<"Hello ", "{{Current_User}}", " (", "{{current_user}}", ") at ", "{{ISO_DATETIME}}">>,
     <<"{{unknown}}", " and ", "{{current_time}}", NL, "{current_date}">>,
     <<"{{current_date}}", NL, "{{current_date}}", " ", "{{user}}">>}

\* FileSearchMatch(filename, content, page, relevance): the defaults of
\* page and relevance, a page, a content of two lines with blanks around
\* it, an empty filename, and the scores 0 and 1.  Scores are in
\* thousandths.
MatchPool ==
    {[filename |-> <<"report.pdf">>, content |-> <<"Dose limits are ...">>,
      page |-> <<>>, relevance |-> 850],
     [filename |-> <<"report.pdf">>, content |-> <<"Section 2 ...">>,
      page |-> <<"12">>, relevance |-> 914],
     [filename |-> <<"notes.txt">>,
      content |-> <<" ", "first line", NL, "second line", NL>>,
      page |-> <<>>, relevance |-> 127],
     [filename |-> <<>>, content |-> <<>>, page |-> <<"iv">>, relevance |-> 0],
     [filename |-> <<"annex.docx">>, content |-> <<"Found 0 relevant passages:">>,
      page |-> <<>>, relevance |-> 1000]}

\* FileSearchResult(matches): up to MaxMatches matches, repeats allowed.
FileSearchResults ==
    {[matches |-> ms] : ms \in UNION {[1..n -> MatchPool] : n \in 0..MaxMatches}}

\* The callers that use one builder at the same time.
Callers == 1..MaxCallers

\* What the concurrent callers pass: the configurations they build, the
\* directive lists they extend the shared descriptor with, the search
\* results and the match lists they format.
CallerConfigs == {x \in CoreConfigs : x.scenario \in {"mcp", "ui_agent"}}

CallerTurnLists ==
    {<<>>,
     <<[assistant |-> <<"The weather in Rotterdam is mild.">>]>>,
     <<[tool_calls |-> <<ToolCall1>>],
       [tool_result |-> [tool_call_id |-> "call_1",
                         content |-> <<"=== Web Results, Turn 0 ===">>]]>>,
     <<[user |-> <<"And tomorrow?">>],
       [tool_calls |-> <<ToolCall2>>, assistant |-> <<"Searching the files.">>]>>}

CallerWebSearchResults ==
    {[organic |-> <<SourceAt(1)>>, top_stories |-> <<SourceAt(2)>>,
      knowledge_graph |-> CHOOSE kg \in KnowledgeGraphChoices : "title" \in DOMAIN kg,
      answer_box |-> CHOOSE ab \in AnswerBoxChoices : "title" \in DOMAIN ab,
      people_also_ask |-> CHOOSE pa \in PeopleAlsoAskChoices : Len(pa) = 1],
     [organic |-> <<SourceAt(2), SourceAt(1)>>, top_stories |-> <<>>,
      knowledge_graph |-> <<>>, answer_box |-> <<>>,
      people_also_ask |-> CHOOSE pa \in PeopleAlsoAskChoices : Len(pa) = 2]}

CallerFileSearchResults ==
    {[matches |-> <<>>],
     [matches |-> <<CHOOSE m \in MatchPool : m.filename = <<"notes.txt">>,
                    CHOOSE m \in MatchPool : m.page = <<"12">>>>]}

(***************************************************************************)
(* State.                                                                  *)
(***************************************************************************)
VARIABLES
    self,             \* the builder instance: [user_name]
    pc,               \* "idle", "built", "failed", "loop", "extended", "formatted", "exported"
    cfg,              \* arguments of the build_request call made last
    request,          \* the descriptor the last call returned
    initial_request,  \* the descriptor passed to build_multi_turn_request
    before,           \* initial_request as it was when the call started
    turns,            \* the directive list passed to build_multi_turn_request
    idx,              \* position of the for loop in turns
    messages,         \* the local list messages of build_multi_turn_request
    call,             \* arguments of the formatter call made last
    output_lines,     \* the local list output_lines of format_web_search_result
    returned,         \* the text the last formatter call returned
    history,          \* the calls made so far, each with the text it returned
    exported,         \* the dict the last to_openai_format call returned
    callers           \* for each concurrent caller the frame of its call

vars == <<self, pc, cfg, request, initial_request, before, turns, idx, messages,
          call, output_lines, returned, history, exported, callers>>

\* The variables of the builders and those of the formatter.
builder_vars == <<cfg, request, initial_request, before, turns, idx, messages>>

formatter_vars == <<call, output_lines, returned, history>>

\* What the callers of the builder hold.
caller_vars == <<exported, callers>>

NoConfig == DefaultConfig("", CHOOSE c \in CallChoices : c.model = "gpt-4")

\* The frame of a caller that has made no call: the position and the name
\* of the call, its arguments (cfg, turns, call, matches), its local
\* variables (idx, messages, output_lines) and what it returned (request
\* or returned).  concurrent records whether a call of another caller was
\* in progress at any time during the call.
IdleFrame ==
    [pc |-> "idle", op |-> "", cfg |-> NoConfig, turns |-> <<>>, idx |-> 0,
     messages |-> <<>>, call |-> [turn |-> 0, result |-> EmptyWebSearchResult],
     matches |-> <<>>, output_lines |-> <<>>, request |-> NoRequest,
     returned |-> <<>>, concurrent |-> FALSE]

\* LibreChatPromptBuilder(user_name)
InitWith(user_name) ==
    /\ self = [user_name |-> user_name]
    /\ pc = "idle"
    /\ cfg = NoConfig
    /\ request = NoRequest
    /\ initial_request = NoRequest
    /\ before = NoRequest
    /\ turns = <<>>
    /\ idx = 0
    /\ messages = <<>>
    /\ call = [turn |-> 0, result |-> EmptyWebSearchResult]
    /\ output_lines = <<>>
    /\ returned = <<>>
    /\ history = <<>>
    /\ exported = <<>>
    /\ callers = [c \in Callers |-> IdleFrame]

\* LibreChatPromptBuilder(): the default display name.
Init == InitWith(<<"User">>)

\* LibreChatPromptBuilder(user_name) for every display name.
BuildInit == \E u \in UserNames : InitWith(u)

\* build_request(scenario, user_message, model, temperature, **config)
BuildRequest(c) ==
    /\ pc = "idle"
    /\ \E r \in {BuildRequestResult(self, c)} :
          /\ pc' = IF r.raised THEN "failed" ELSE "built"
          /\ request' = r.value
    /\ cfg' = c
    /\ UNCHANGED <<self, initial_request, before, turns, idx, messages>>
    /\ UNCHANGED formatter_vars
    /\ UNCHANGED caller_vars

\* build_multi_turn_request, entry: messages = initial_request.messages.copy().
\* The caller passes the descriptor it holds; a conversation is extended to
\* at most MaxTurns directives in all.
MultiTurnStart(ts) ==
    /\ pc \in {"built", "extended"}
    /\ Len(request.messages) - 2 + Len(ts) <= MaxTurns
    /\ pc' = "loop"
    /\ initial_request' = request
    /\ before' = request
    /\ turns' = ts
    /\ idx' = 1
    /\ messages' = request.messages
    /\ UNCHANGED <<self, cfg, request>>
    /\ UNCHANGED formatter_vars
    /\ UNCHANGED caller_vars

\* build_multi_turn_request, one iteration of "for turn in turns".
MultiTurnStep ==
    /\ pc = "loop"
    /\ idx <= Len(turns)
    /\ LET h == AppendMessages([messages |-> messages, initial |-> initial_request],
                               TurnMessages(turns[idx]))
       IN /\ messages' = h.messages
          /\ initial_request' = h.initial
    /\ idx' = idx + 1
    /\ UNCHANGED <<self, pc, cfg, request, before, turns>>
    /\ UNCHANGED formatter_vars
    /\ UNCHANGED caller_vars

\* Variant: the return statement may be reached before the list is
\* exhausted.
MultiTurnReturnEarly ==
    /\ pc = "loop"
    /\ request' = ExtendedRequest(initial_request, messages)
    /\ pc' = "extended"
    /\ UNCHANGED <<self, cfg, initial_request, before, turns, idx, messages>>
    /\ UNCHANGED formatter_vars
    /\ UNCHANGED caller_vars

\* build_multi_turn_request, exit: return PromptRequest(...).
MultiTurnReturn ==
    /\ pc = "loop"
    /\ idx > Len(turns)
    /\ request' = ExtendedRequest(initial_request, messages)
    /\ pc' = "extended"
    /\ UNCHANGED <<self, cfg, initial_request, before, turns, idx, messages>>
    /\ UNCHANGED formatter_vars
    /\ UNCHANGED caller_vars

Next ==
    \/ pc = "idle" /\ \E c \in CoreConfigs : BuildRequest(c)
    \/ /\ pc \in {"built", "extended"}
       /\ \E n \in 0..(MaxTurns + 2 - Len(request.messages)) :
            \E ts \in [1..n -> DirectivePool] : MultiTurnStart(ts)
    \/ MultiTurnStep
    \/ MultiTurnReturn

\* A build followed by any sequence of extensions.
Spec == Init /\ [][Next]_vars

\* format_web_search_result(turn, result): the list output_lines is made
\* anew, filled block by block, joined and stripped.
FormatWebSearchResultCall(t, r) ==
    /\ pc \in {"idle", "formatted"}
    /\ call' = [turn |-> t, result |-> r]
    /\ output_lines' = WebSearchLines(NewOutputLines(output_lines), t, r)
    /\ returned' = JoinedAndStripped(output_lines')
    /\ pc' = "formatted"
    /\ UNCHANGED self
    /\ UNCHANGED builder_vars
    /\ UNCHANGED caller_vars

\* The calls of the docstring example of build_multi_turn_request: the
\* initial descriptor comes from the web_search scenario, then any sequence
\* of extensions.
FairNext ==
    \/ pc = "idle" /\ \E c \in {x \in CoreConfigs : x.scenario = "web_search"} :
                          BuildRequest(c)
    \/ /\ pc \in {"built", "extended"}
       /\ \E n \in 0..(MaxTurns + 2 - Len(request.messages)) :
            \E ts \in [1..n -> DirectivePool] : MultiTurnStart(ts)
    \/ MultiTurnStep
    \/ MultiTurnReturn

\* The same operations under the scheduling of a running call: the loop
\* of build_multi_turn_request waits for nothing, so an iteration that can
\* run does run, and so does the return statement.  Calls themselves are
\* up to the caller and carry no fairness.
FairSpec ==
    /\ Init /\ [][FairNext]_vars
    /\ WF_vars(MultiTurnStep)
    /\ WF_vars(MultiTurnReturn)

BuildNext == pc = "idle" /\ \E c \in Configs : BuildRequest(c)

\* Every scenario with every configuration.
BuildSpec == BuildInit /\ [][BuildNext]_vars

FormatNext ==
    /\ pc = "idle"
    /\ \E t \in TurnNumbers : \E r \in WebSearchResults :
          FormatWebSearchResultCall(t, r)
    /\ UNCHANGED history

\* One format_web_search_result call, for every turn number and result.
FormatSpec == Init /\ [][FormatNext]_vars

\* The configurations whose descriptors are exported: that of CoreConfigs
\* for the mcp scenario, with three tools, and two that give an empty tool
\* list, the mcp scenario without servers and the ui_agent scenario with an
\* agent without tools.
ExportConfigs ==
    {x \in CoreConfigs : x.scenario = "mcp"}
    \cup {DefaultConfig("mcp", c) : c \in {x \in CallChoices : x.model = "gpt-4"}}
    \cup {DefaultConfig("ui_agent", c) : c \in {x \in CallChoices : x.model # "gpt-4"}}

\* request.to_openai_format() on the descriptor the caller holds.
ToOpenAiFormatCall ==
    /\ pc \in {"built", "extended"}
    /\ exported' = ToOpenAiFormat(request)
    /\ pc' = "exported"
    /\ UNCHANGED <<self, callers>>
    /\ UNCHANGED builder_vars
    /\ UNCHANGED formatter_vars

ExportNext ==
    \/ pc = "idle" /\ \E c \in ExportConfigs : BuildRequest(c)
    \/ /\ pc \in {"built", "extended"}
       /\ \E n \in 0..(MaxTurns + 2 - Len(request.messages)) :
            \E ts \in [1..n -> DirectivePool] : MultiTurnStart(ts)
    \/ MultiTurnStep
    \/ MultiTurnReturn
    \/ ToOpenAiFormatCall

\* A build followed by any sequence of extensions and then an export.
ExportSpec == Init /\ [][ExportNext]_vars

\* format_file_search_result(result)
FormatFileSearchResultCall(r) ==
    /\ pc = "idle"
    /\ call' = [result |-> r]
    /\ output_lines' = IF r.matches = <<>> THEN <<>> ELSE FileSearchLines(r.matches)
    /\ returned' = FormatFileSearchResult(r)
    /\ pc' = "formatted"
    /\ UNCHANGED <<self, history>>
    /\ UNCHANGED builder_vars
    /\ UNCHANGED caller_vars

FileSearchNext == pc = "idle" /\ \E r \in FileSearchResults : FormatFileSearchResultCall(r)

\* One format_file_search_result call, for every match list.
FileSearchSpec == Init /\ [][FileSearchNext]_vars

\* replace_special_vars(text), now being the value datetime.now() returns
\* during the call.
ReplaceSpecialVarsCall(text, now) ==
    /\ pc \in {"idle", "formatted"}
    /\ call' = [text |-> text, now |-> now]
    /\ returned' = ReplaceSpecialVars(self, text, now)
    /\ history' = Append(history, [text |-> text, now |-> now, returned |-> returned'])
    /\ pc' = "formatted"
    /\ UNCHANGED <<self, output_lines>>
    /\ UNCHANGED builder_vars
    /\ UNCHANGED caller_vars

\* LibreChatPromptBuilder(user_name) for every display name.
ReplaceInit == \E u \in DisplayNames : InitWith(u)

\* A first call with any text at any moment, then calls that resolve the
\* returned text again at the same moment.
ReplaceNext ==
    \/ /\ pc = "idle"
       /\ \E text \in PlaceholderTexts : \E now \in Clocks :
             ReplaceSpecialVarsCall(text, now)
    \/ /\ pc = "formatted"
       /\ Len(history) < MaxPasses
       /\ ReplaceSpecialVarsCall(returned, call.now)

\* Up to MaxPasses passes of replace_special_vars over one text.
ReplaceSpec == ReplaceInit /\ [][ReplaceNext]_vars

RepeatNext ==
    /\ Len(history) < MaxCalls
    /\ \E t \in TurnNumbers : \E r \in RepeatedResults :
          /\ FormatWebSearchResultCall(t, r)
          /\ history' = Append(history, [turn |-> t, result |-> r,
                                         returned |-> returned'])

\* Up to MaxCalls format_web_search_result calls on one builder.
RepeatSpec == Init /\ [][RepeatNext]_vars

(***************************************************************************)
(* Several callers on one builder.  A call is a sequence of steps on the   *)
(* frame of its caller; steps of different callers interleave in any      *)
(* order.  The builder (self) and the descriptor the callers extend        *)
(* (request, built before they start) are the objects they share.          *)
(***************************************************************************)
InProgress(f) == f.pc \notin {"idle", "returned"}

\* Caller c enters a call with the frame f: the frames after the entry.
Enter(c, f) ==
    [d \in Callers |->
        IF d = c
        THEN [f EXCEPT !.concurrent = \E e \in Callers \ {c} : InProgress(callers[e])]
        ELSE IF InProgress(callers[d]) THEN [callers[d] EXCEPT !.concurrent = TRUE]
        ELSE callers[d]]

shared_vars == <<self, pc, cfg, request, initial_request, before, turns, idx,
                 messages, call, output_lines, returned, history, exported>>

\* build_request(...) by caller c, entry.
CallerBuildStart(c, config) ==
    /\ callers[c].pc = "idle"
    /\ callers' = Enter(c, [callers[c] EXCEPT !.pc = "build",
                                               !.op = "build_request",
                                               !.cfg = config])
    /\ UNCHANGED shared_vars

\* build_request by caller c, the scenario builder: self.user_name is read
\* by replace_special_vars, and the descriptor is returned.
CallerBuildReturn(c) ==
    /\ callers[c].pc = "build"
    /\ callers' = [callers EXCEPT
                      ![c].request = BuildRequestResult(self, callers[c].cfg).value,
                      ![c].pc = "returned"]
    /\ UNCHANGED shared_vars

\* build_multi_turn_request(request, ts) by caller c, entry:
\* messages = initial_request.messages.copy().
CallerMultiTurnStart(c, ts) ==
    /\ callers[c].pc = "idle"
    /\ pc = "built"
    /\ callers' = Enter(c, [callers[c] EXCEPT !.pc = "loop",
                                               !.op = "build_multi_turn_request",
                                               !.turns = ts,
                                               !.idx = 1,
                                               !.messages = request.messages])
    /\ UNCHANGED shared_vars

\* build_multi_turn_request by caller c, one iteration of the loop.
CallerMultiTurnStep(c) ==
    /\ callers[c].pc = "loop"
    /\ callers[c].idx <= Len(callers[c].turns)
    /\ \E h \in {AppendMessages([messages |-> callers[c].messages, initial |-> request],
                                 TurnMessages(callers[c].turns[callers[c].idx]))} :
          /\ callers' = [callers EXCEPT ![c].messages = h.messages,
                                        ![c].idx = @ + 1]
          /\ request' = h.initial
    /\ UNCHANGED <<self, pc, cfg, initial_request, before, turns, idx, messages,
                   call, output_lines, returned, history, exported>>

\* build_multi_turn_request by caller c, the return statement.
CallerMultiTurnReturn(c) ==
    /\ callers[c].pc = "loop"
    /\ callers[c].idx > Len(callers[c].turns)
    /\ callers' = [callers EXCEPT
                      ![c].request = ExtendedRequest(request, callers[c].messages),
                      ![c].pc = "returned"]
    /\ UNCHANGED shared_vars

\* format_web_search_result(t, r) by caller c, entry: output_lines = [].
CallerFormatStart(c, t, r) ==
    /\ callers[c].pc = "idle"
    /\ callers' = [Enter(c, [callers[c] EXCEPT !.pc = "blocks",
                                                !.op = "format_web_search_result",
                                                !.call = [turn |-> t, result |-> r],
                                                !.idx = 1])
                     EXCEPT ![OutputLinesFrame(c)].output_lines = NewOutputLines(@)]
    /\ UNCHANGED shared_vars

\* format_web_search_result by caller c, the next of the five blocks.
CallerFormatBlock(c) ==
    /\ callers[c].pc = "blocks"
    /\ callers[c].idx <= 5
    /\ callers' = [callers EXCEPT
                      ![OutputLinesFrame(c)].output_lines =
                          WebSearchBlock(callers[c].idx, @, callers[c].call.turn,
                                         callers[c].call.result),
                      ![c].idx = @ + 1]
    /\ UNCHANGED shared_vars

\* format_web_search_result by caller c, the return statement.
CallerFormatReturn(c) ==
    /\ callers[c].pc = "blocks"
    /\ callers[c].idx > 5
    /\ callers' = [callers EXCEPT
                      ![c].returned =
                          JoinedAndStripped(callers[OutputLinesFrame(c)].output_lines),
                      ![c].pc = "returned"]
    /\ UNCHANGED shared_vars

\* format_file_search_result(r) by caller c, entry.
CallerFileSearchStart(c, r) ==
    /\ callers[c].pc = "idle"
    /\ callers' = Enter(c, [callers[c] EXCEPT !.pc = "matches",
                                               !.op = "format_file_search_result",
                                               !.matches = r.matches])
    /\ UNCHANGED shared_vars

\* format_file_search_result by caller c: the fixed sentence, or the
\* blocks of the matches joined and stripped.
CallerFileSearchReturn(c) ==
    /\ callers[c].pc = "matches"
    /\ callers' = [callers EXCEPT
                      ![c].returned = FormatFileSearchResult([matches |-> callers[c].matches]),
                      ![c].pc = "returned"]
    /\ UNCHANGED shared_vars

\* The builder is made and the shared descriptor is built; then every
\* caller makes one call, and the steps of the calls interleave.
ConcurrentNext ==
    \/ pc = "idle" /\ \E c \in {x \in CoreConfigs : x.scenario = "web_search"} :
                          BuildRequest(c)
    \/ \E c \in Callers : \E config \in CallerConfigs : CallerBuildStart(c, config)
    \/ \E c \in Callers : CallerBuildReturn(c)
    \/ \E c \in Callers : \E ts \in CallerTurnLists : CallerMultiTurnStart(c, ts)
    \/ \E c \in Callers : CallerMultiTurnStep(c)
    \/ \E c \in Callers : CallerMultiTurnReturn(c)
    \/ \E c \in Callers : \E t \in TurnNumbers : \E r \in CallerWebSearchResults :
          CallerFormatStart(c, t, r)
    \/ \E c \in Callers : CallerFormatBlock(c)
    \/ \E c \in Callers : CallerFormatReturn(c)
    \/ \E c \in Callers : \E r \in CallerFileSearchResults : CallerFileSearchStart(c, r)
    \/ \E c \in Callers : CallerFileSearchReturn(c)

\* MaxCallers callers on one builder, one call each.
ConcurrentSpec == Init /\ [][ConcurrentNext]_vars

(***************************************************************************)
(* Properties of the descriptors.                                          *)
(***************************************************************************)
Roles(msgs) == [i \in 1..Len(msgs) |-> msgs[i].role]

IsPrefix(p, t) == Len(p) <= Len(t) /\ SubSeq(t, 1, Len(p)) = p

\* The directive shapes, in the order in which a directive is matched.
IsToolCallDirective(turn) == "tool_calls" \in DOMAIN turn

IsToolResultDirective(turn) ==
    "tool_result" \in DOMAIN turn /\ ~IsToolCallDirective(turn)

IsAssistantTextDirective(turn) ==
    "assistant" \in DOMAIN turn /\ ~IsToolCallDirective(turn)
    /\ ~IsToolResultDirective(turn)

IsRecognized(turn) ==
    DOMAIN turn \cap {"tool_calls", "tool_result", "assistant"} # {}

ExpectedRole(turn) == IF IsToolResultDirective(turn) THEN "tool" ELSE "assistant"

\* The recognized directives among the first n of the list, in list order.
RecognizedAmong(ts, n) == SelectSeq(SubSeq(ts, 1, n), IsRecognized)

\* C1: a descriptor returned by build_request, in each of the four
\* scenarios and for every configuration, has exactly two messages: a
\* system message, then a user message whose content is the user message
\* supplied.
C1_FreshMessages ==
    pc = "built" =>
        /\ cfg.scenario \in {"files", "mcp", "web_search", "ui_agent"}
        /\ Len(request.messages) = 2
        /\ request.messages[1].role = "system"
        /\ request.messages[2].role = "user"
        /\ request.messages[2].content = cfg.user_message

\* The mcp scenario with nothing configured: the system text is empty.
C1_Witness ==
    /\ pc = "built"
    /\ cfg.scenario = "mcp"
    /\ request.system_prompt = <<>>
    /\ Len(request.messages) = 2

\* C2: the message list build_multi_turn_request returns starts with the
\* messages of the initial descriptor, unchanged and in the same order, and
\* the initial descriptor's own message list is after the call what it was
\* before the call.
C2_PrefixKept ==
    pc = "extended" =>
        /\ IsPrefix(before.messages, request.messages)
        /\ initial_request.messages = before.messages

C2_Witness ==
    /\ pc = "extended"
    /\ Len(turns) = MaxTurns
    /\ Len(request.messages) = Len(before.messages) + MaxTurns

\* C3: after the directives were applied the roles are system, user, then
\* one assistant or tool message for each recognized directive, the k-th
\* appended message being the one of the k-th recognized directive; this
\* holds after every iteration of the loop, so no message is placed before
\* an earlier one.
C3_RolesInDirectiveOrder ==
    pc \in {"loop", "extended"} =>
        LET done == RecognizedAmong(turns, idx - 1)
        IN /\ Roles(messages) = Roles(before.messages)
                                  \o [k \in 1..Len(done) |-> ExpectedRole(done[k])]
           /\ Roles(SubSeq(messages, 1, 2)) = <<"system", "user">>
           /\ \A k \in 3..Len(messages) : messages[k].role \in {"assistant", "tool"}
           /\ pc = "extended" =>
                /\ request.messages = messages
                /\ idx - 1 = Len(turns)

\* A tool call, its result and the answer, applied to a fresh descriptor.
C3_Witness ==
    /\ pc = "extended"
    /\ Len(before.messages) = 2
    /\ Roles(request.messages) = <<"system", "user", "assistant", "tool", "assistant">>

\* The message a directive is to append, field by field.
C4_IsMessageOf(m, turn) ==
    IF IsToolCallDirective(turn) THEN
        /\ DOMAIN m = {"role", "content", "tool_calls"}
        /\ m.role = "assistant"
        /\ m.content = (IF "content" \in DOMAIN turn THEN turn.content ELSE <<>>)
        /\ Len(m.tool_calls) = Len(turn.tool_calls)
        /\ \A i \in 1..Len(turn.tool_calls) :
              /\ m.tool_calls[i].id = turn.tool_calls[i].id
              /\ m.tool_calls[i].function.name = turn.tool_calls[i].name
    ELSE IF IsToolResultDirective(turn) THEN
        /\ DOMAIN m = {"role", "content", "tool_call_id"}
        /\ m.role = "tool"
        /\ m.content = turn.tool_result.content
        /\ m.tool_call_id = turn.tool_result.tool_call_id
    ELSE
        /\ DOMAIN m = {"role", "content"}
        /\ m.role = "assistant"
        /\ m.content = turn.assistant

\* C4: each recognized directive appends exactly one message: a tool-call
\* directive an assistant message with the accompanying text (empty when
\* absent) and one tool_calls record per invocation, in order, id and name
\* unchanged; a tool-result directive a tool message with the content and
\* tool_call_id given; an assistant-text directive an assistant message
\* with the text given and no tool_calls field.
C4_OneMessagePerDirective ==
    [][(pc = "loop" /\ idx' = idx + 1 /\ IsRecognized(turns[idx])) =>
          /\ Len(messages') = Len(messages) + 1
          /\ SubSeq(messages', 1, Len(messages)) = messages
          /\ C4_IsMessageOf(messages'[Len(messages')], turns[idx])]_vars

\* A call with two invocations and a text, a tool result and an answer.
C4_Witness ==
    /\ pc = "extended"
    /\ Len(turns) = 3
    /\ IsToolCallDirective(turns[1]) /\ Len(turns[1].tool_calls) = 2
    /\ "content" \in DOMAIN turns[1]
    /\ IsToolResultDirective(turns[2])
    /\ IsAssistantTextDirective(turns[3])
    /\ Len(request.messages) = Len(before.messages) + 3

\* C5: the descriptor build_multi_turn_request returns has the system
\* prompt, tools, model and temperature of the initial descriptor, and the
\* call changes none of the five fields of the initial descriptor.
C5_OtherFieldsShared ==
    pc = "extended" =>
        /\ request.system_prompt = before.system_prompt
        /\ request.tools = before.tools
        /\ request.model = before.model
        /\ request.temperature = before.temperature
        /\ initial_request = before

\* An extension of a descriptor with non-default model and temperature.
C5_Witness ==
    /\ pc = "extended"
    /\ before.model # "gpt-4"
    /\ before.temperature # 7
    /\ before.tools # <<>>
    /\ request.messages # before.messages

(***************************************************************************)
(* Properties of the system text and of the tool list.                     *)
(***************************************************************************)
\* sub occurs in t: at some offset every atom of sub stands in t.  Both
\* texts are evaluated once.
Contains(t, sub) ==
    \E tt \in {t} : \E ss \in {sub} :
        \E i \in 0..(Len(tt) - Len(ss)) :
            \A k \in 1..Len(ss) : tt[i + k] = ss[k]

StartsWith(t, p) == IsPrefix(p, t)

EndsWith(t, p) ==
    Len(p) <= Len(t) /\ SubSeq(t, Len(t) - Len(p) + 1, Len(t)) = p

\* The first line of a file notice: with files, and without.
FileNoticeHeads ==
    {"- Note: Use the file_search tool to find relevant information within:",
     "- Note: Semantic search is available through the file_search tool but no files are currently loaded."}

FileNoticePresent(sp) == \E i \in 1..Len(sp) : sp[i] \in FileNoticeHeads

WebPolicyPresent(sp) == Contains(sp, WEB_SEARCH_CONTEXT)

BiasPresent(sp) == Contains(sp, FILE_SEARCH_BIAS)

RagContextPresent(sp) == Contains(sp, <<"<context>">>)

MemoryBlockPresent(sp) ==
    Contains(sp, MEMORY_INSTRUCTIONS \o <<NL, NL, "# Existing memory about the user:", NL>>)

\* The tool-context block is the first block of the system text.
ToolContextBlockPresent(sp) ==
    \/ sp # <<>> /\ sp[1] \in FileNoticeHeads
    \/ StartsWith(sp, WEB_SEARCH_CONTEXT)

\* A slot text of the files, mcp or web_search scenario is present when it
\* stands in the system text as a block of its own.
SlotPresent(sp, text) ==
    /\ text # <<>>
    /\ \/ sp = text
       \/ StartsWith(sp, text \o SEP)
       \/ EndsWith(sp, SEP \o text)
       \/ Contains(sp, SEP \o text \o SEP)

\* C6: in the ui_agent scenario each slot is in the system text exactly
\* when its guard holds: the file notice iff file_search is among the agent
\* tools and files are attached; the web-search policy iff web_search is
\* among the agent tools or web_search_enabled is set; the tool-context
\* block is absent iff both are; the bias instruction iff files are
\* attached and file_search is among the agent tools; the rag context iff
\* context items and files are both non-empty; the memory block iff memory
\* is enabled and the memory data is non-empty.
C6_UiAgentGuards ==
    (pc = "built" /\ cfg.scenario = "ui_agent") =>
        LET sp == request.system_prompt
            fileSearch == "file_search" \in Range(cfg.agent.tools)
            webSearch == "web_search" \in Range(cfg.agent.tools)
            hasFiles == Len(cfg.files) > 0
        IN \A notice \in {FileNoticePresent(sp)} : \A policy \in {WebPolicyPresent(sp)} :
           /\ notice <=> (fileSearch /\ hasFiles)
           /\ policy <=> (webSearch \/ cfg.web_search_enabled)
           /\ ~ToolContextBlockPresent(sp) <=> (~notice /\ ~policy)
           /\ BiasPresent(sp) <=> (hasFiles /\ fileSearch)
           /\ RagContextPresent(sp)
                <=> (Len(cfg.rag_context_items) > 0 /\ hasFiles)
           /\ MemoryBlockPresent(sp)
                <=> (cfg.agent.memory_enabled /\ Len(cfg.agent.memory_data) > 0)

\* file_search enabled without files, web search switched on by the flag
\* only, memory enabled without data: only the web policy is emitted.
C6_Witness ==
    /\ pc = "built"
    /\ cfg.scenario = "ui_agent"
    /\ cfg.agent.tools = <<"file_search">>
    /\ cfg.files = <<>>
    /\ cfg.rag_context_items # <<>>
    /\ cfg.web_search_enabled
    /\ cfg.agent.memory_enabled
    /\ cfg.agent.memory_data = <<>>
    /\ WebPolicyPresent(request.system_prompt)
    /\ ~FileNoticePresent(request.system_prompt)

\* The primary instructions after placeholder resolution.
ResolvedInstructions(text) == ReplaceSpecialVars(self, text, cfg.now)

SlotText(guard, text) == IF guard THEN text ELSE <<>>

\* The slots of each scenario in precedence order, each with its guard.
C8_Slots ==
    LET servers == SelectSeq(cfg.mcp_servers, LAMBDA sv : Len(sv.instructions) > 0)
        serverBlock == SlotText(Len(servers) > 0, FormatMcpInstructions(cfg.mcp_servers))
        fileSearch == "file_search" \in Range(cfg.agent.tools)
        webSearch == "web_search" \in Range(cfg.agent.tools) \/ cfg.web_search_enabled
        hasFiles == Len(cfg.files) > 0
        hasItems == Len(cfg.rag_context_items) > 0
        notice == FormatFileSearchContext(cfg.files)
        rag == FormatRagContext(cfg.files, cfg.rag_context_items)
        toolContext ==
            IF fileSearch /\ hasFiles /\ webSearch
            THEN notice \o SEP \o WEB_SEARCH_CONTEXT
            ELSE IF fileSearch /\ hasFiles THEN notice
            ELSE IF webSearch THEN WEB_SEARCH_CONTEXT
            ELSE <<>>
    IN CASE cfg.scenario = "files" ->
              <<FILE_SEARCH_BIAS,
                SlotText(hasItems, rag),
                ResolvedInstructions(cfg.agent_instructions),
                notice>>
         [] cfg.scenario = "mcp" ->
              <<ResolvedInstructions(cfg.agent_instructions), serverBlock>>
         [] cfg.scenario = "web_search" ->
              <<ResolvedInstructions(cfg.agent_instructions),
                IF Len(cfg.custom_web_search_context) > 0
                THEN cfg.custom_web_search_context ELSE WEB_SEARCH_CONTEXT>>
         [] cfg.scenario = "ui_agent" ->
              <<toolContext,
                SlotText(hasFiles /\ fileSearch, FILE_SEARCH_BIAS),
                SlotText(hasItems /\ hasFiles, rag),
                ResolvedInstructions(cfg.agent.instructions),
                cfg.agent.additional_instructions,
                serverBlock,
                SlotText(cfg.agent.memory_enabled /\ Len(cfg.agent.memory_data) > 0,
                         MEMORY_INSTRUCTIONS
                         \o <<NL, NL, "# Existing memory about the user:", NL>>
                         \o cfg.agent.memory_data)>>
         [] OTHER -> <<>>

\* The slots that are emitted: guard true and text non-empty.
C8_Emitted == SelectSeq(C8_Slots, LAMBDA t : Len(t) > 0)

RECURSIVE C8_Joined(_)
\* The texts with one blank line between each two of them.
C8_Joined(texts) ==
    IF Len(texts) = 0 THEN <<>>
    ELSE IF Len(texts) = 1 THEN texts[1]
    ELSE C8_Joined(SubSeq(texts, 1, Len(texts) - 1)) \o <<NL, NL>> \o texts[Len(texts)]

\* The separator at neither end and never twice in a row.
C8_SeparatorsOnlyBetweenSlots(sp) ==
    /\ ~StartsWith(sp, SEP)
    /\ ~EndsWith(sp, SEP)
    /\ ~Contains(sp, SEP \o SEP)

\* C8 as stated: in every scenario the system text is the emitted slot
\* texts joined by one blank line in precedence order, so it never starts
\* or ends with the separator and never holds two separators in a row.
C8_AsStated ==
    pc = "built" =>
        /\ request.system_prompt = C8_Joined(C8_Emitted)
        /\ C8_SeparatorsOnlyBetweenSlots(request.system_prompt)

\* A slot text that has no line break at either end and no two blank lines
\* in a row.
C8_CleanText(t) ==
    /\ t[1] # NL
    /\ t[Len(t)] # NL
    /\ ~Contains(t, SEP \o SEP)

\* C8, amended: the system text is the emitted slot texts joined by one
\* blank line in precedence order; when no emitted slot text has a line
\* break at either end or two blank lines in a row, the system text never
\* starts or ends with the separator and never holds two separators in a
\* row.
C8_JoinedSlots ==
    pc = "built" =>
        \A emitted \in {C8_Emitted} :
            /\ request.system_prompt = C8_Joined(emitted)
            /\ (\A k \in 1..Len(emitted) : C8_CleanText(emitted[k]))
                 => C8_SeparatorsOnlyBetweenSlots(request.system_prompt)

\* The ui_agent scenario with the first and the last slot dropped and
\* three of the slots in between emitted.
C8_Witness ==
    /\ pc = "built"
    /\ cfg.scenario = "ui_agent"
    /\ Len(C8_Slots[1]) = 0
    /\ Len(C8_Slots[7]) = 0
    /\ Len(C8_Emitted) = 3
    /\ \A k \in 1..Len(C8_Emitted) : C8_CleanText(C8_Emitted[k])
    /\ request.system_prompt # <<>>

RECURSIVE C9_ServerTools(_)
\* The tools of the servers, server after server.
C9_ServerTools(servers) ==
    IF Len(servers) = 0 THEN <<>>
    ELSE C9_ServerTools(SubSeq(servers, 1, Len(servers) - 1))
         \o servers[Len(servers)].tools

\* C9: in the ui_agent scenario the tool list is the file_search tool iff
\* the file notice was emitted, then the web_search tool iff the web policy
\* was emitted, then the tools of every server in server order and, within
\* a server, in the order of its list; nothing else.
C9_UiAgentToolList ==
    (pc = "built" /\ cfg.scenario = "ui_agent") =>
        request.tools =
            (IF FileNoticePresent(request.system_prompt)
             THEN <<CreateFileSearchTool>> ELSE <<>>)
            \o (IF WebPolicyPresent(request.system_prompt)
                THEN <<CreateWebSearchTool>> ELSE <<>>)
            \o C9_ServerTools(cfg.mcp_servers)

\* Both built-in tools and two servers, the second with two tools.
C9_Witness ==
    /\ pc = "built"
    /\ cfg.scenario = "ui_agent"
    /\ FileNoticePresent(request.system_prompt)
    /\ WebPolicyPresent(request.system_prompt)
    /\ Len(cfg.mcp_servers) = 2
    /\ Len(cfg.mcp_servers[1].tools) = 1
    /\ Len(cfg.mcp_servers[2].tools) = 2
    /\ Len(request.tools) = 5

\* C10: in the mcp scenario the tool list is the tool lists of the
\* servers, concatenated in server order, servers without instructions
\* included; in the files scenario it is one file_search tool, whatever
\* the files, retrieved items and instructions.
C10_McpAndFilesToolLists ==
    /\ (pc = "built" /\ cfg.scenario = "mcp") =>
            request.tools = C9_ServerTools(cfg.mcp_servers)
    /\ (pc = "built" /\ cfg.scenario = "files") =>
            /\ Len(request.tools) = 1
            /\ request.tools[1].function.name = "file_search"
            /\ request.tools[1] = CreateFileSearchTool

\* Two servers, the first without instructions, both with tools.
C10_Witness ==
    /\ pc = "built"
    /\ cfg.scenario = "mcp"
    /\ Len(cfg.mcp_servers) = 2
    /\ cfg.mcp_servers[1].instructions = <<>>
    /\ cfg.mcp_servers[1].tools # <<>>
    /\ cfg.mcp_servers[2].tools # <<>>
    /\ Len(request.tools) = Len(cfg.mcp_servers[1].tools) + Len(cfg.mcp_servers[2].tools)

\* The tool identifiers the servers of ServerPool advertise.
C11_ToolIds == {"search", "fetch"}

\* The entries of the built tool list that come from the servers: the last
\* entries, as many as the servers have tools.
C11_ServerEntries ==
    SubSeq(request.tools,
           Len(request.tools) - Len(C9_ServerTools(cfg.mcp_servers)) + 1,
           Len(request.tools))

\* The tool was made by create_mcp_tool for identifier t under the name of
\* the server that lists it.
C11_MadeForOwner(tool, server, t) ==
    tool = CreateMcpTool(t, server.server_name,
                         tool.function.description, tool.function.parameters)

C11_OwnTool(server, k) ==
    \E t \in C11_ToolIds : C11_MadeForOwner(server.tools[k], server, t)

\* C11 as stated: in the mcp and ui_agent scenarios every server tool of
\* the built tool list is named identifier + "__mcp__" + name of the server
\* that lists it, and no two entries of the tool list have the same name.
C11_AsStated ==
    (pc = "built" /\ cfg.scenario \in {"mcp", "ui_agent"}) =>
        /\ \A i \in 1..Len(cfg.mcp_servers) :
             \A k \in 1..Len(cfg.mcp_servers[i].tools) :
                \E t \in C11_ToolIds :
                    cfg.mcp_servers[i].tools[k].function.name
                        = t \o "__mcp__" \o cfg.mcp_servers[i].server_name
        /\ \A a, b \in 1..Len(request.tools) :
             request.tools[a].function.name = request.tools[b].function.name
                => a = b

\* C11, amended: in the mcp and ui_agent scenarios the server entries of
\* the built tool list are the servers' own tool entries, unchanged; an
\* entry made by create_mcp_tool under the name of its server is named
\* identifier + "__mcp__" + server name, and two such entries of different
\* servers never have the same name, even for the same identifier.
C11_CompositeNames ==
    (pc = "built" /\ cfg.scenario \in {"mcp", "ui_agent"}) =>
        /\ C11_ServerEntries = C9_ServerTools(cfg.mcp_servers)
        /\ \A i \in 1..Len(cfg.mcp_servers) :
             \A k \in 1..Len(cfg.mcp_servers[i].tools) :
                \A t \in C11_ToolIds :
                    C11_MadeForOwner(cfg.mcp_servers[i].tools[k], cfg.mcp_servers[i], t)
                    => cfg.mcp_servers[i].tools[k].function.name
                          = t \o "__mcp__" \o cfg.mcp_servers[i].server_name
        /\ \A i, j \in 1..Len(cfg.mcp_servers) :
             \A k \in 1..Len(cfg.mcp_servers[i].tools) :
                \A l \in 1..Len(cfg.mcp_servers[j].tools) :
                    (/\ i < j
                     /\ cfg.mcp_servers[i].tools[k].function.name
                          = cfg.mcp_servers[j].tools[l].function.name)
                    => ~(/\ C11_OwnTool(cfg.mcp_servers[i], k)
                         /\ C11_OwnTool(cfg.mcp_servers[j], l))

\* Two servers that both offer a tool "search" made by create_mcp_tool, in
\* a built ui_agent descriptor that also holds a built-in tool.
C11_Witness ==
    /\ pc = "built"
    /\ cfg.scenario = "ui_agent"
    /\ Len(cfg.mcp_servers) = 2
    /\ C11_MadeForOwner(cfg.mcp_servers[1].tools[1], cfg.mcp_servers[1], "search")
    /\ C11_MadeForOwner(cfg.mcp_servers[2].tools[1], cfg.mcp_servers[2], "search")
    /\ Len(request.tools) > Len(C11_ServerEntries)
    /\ \E a, b \in 1..Len(request.tools) :
         /\ request.tools[a].function.name = "search__mcp__alpha"
         /\ request.tools[b].function.name = "search__mcp__beta"

\* The positions at which the sub-section headings of a system text start,
\* in order.
C12_Heads(sp) ==
    SelectSeq([i \in 1..Len(sp) |-> i],
              LAMBDA i : /\ sp[i] = "## "
                         /\ i + 2 <= Len(sp)
                         /\ sp[i + 2] = " MCP Server Instructions")

\* The server names of the headings that start at the positions heads.
C12_SectionNames(sp, heads) == [k \in 1..Len(heads) |-> sp[heads[k] + 1]]

\* The texts that follow the headings that start at the positions heads,
\* each as long as the instructions of the server it should belong to.
C12_SectionBodies(sp, heads, servers) ==
    [k \in 1..Len(heads) |->
        IF k <= Len(servers)
        THEN SubSeq(sp, heads[k] + 3, heads[k] + 4 + Len(servers[k].instructions))
        ELSE <<>>]

\* C12: in the mcp and ui_agent scenarios the server-instructions block is
\* in the system text iff some configured server has non-empty
\* instructions; when it is, it holds one sub-section per server with
\* non-empty instructions, in input order, each with that server's
\* instructions, and none for a server without instructions.
C12_ServerInstructionsBlock ==
    (pc = "built" /\ cfg.scenario \in {"mcp", "ui_agent"}) =>
        \A sp \in {request.system_prompt} :
        \A instructed \in {SelectSeq(cfg.mcp_servers, LAMBDA sv : Len(sv.instructions) > 0)} :
        \A heads \in {C12_Heads(sp)} :
        \A present \in {\E i \in 1..Len(sp) : sp[i] = "# MCP Server Instructions"} :
           /\ present <=> Len(instructed) > 0
           /\ present <=> Contains(sp, <<NL, NL, "Please follow these instructions when using tools from the respective MCP servers.">>)
           /\ C12_SectionNames(sp, heads) = [k \in 1..Len(instructed) |-> instructed[k].server_name]
           /\ C12_SectionBodies(sp, heads, instructed)
                = [k \in 1..Len(instructed) |-> <<NL, NL>> \o instructed[k].instructions]

\* Two servers, the first without instructions: the block is there with
\* the one sub-section of the second server.
C12_Witness ==
    /\ pc = "built"
    /\ cfg.scenario = "mcp"
    /\ Len(cfg.mcp_servers) = 2
    /\ cfg.mcp_servers[1].instructions = <<>>
    /\ cfg.mcp_servers[2].instructions # <<>>
    /\ "# MCP Server Instructions" \in Range(request.system_prompt)
    /\ C12_SectionNames(request.system_prompt, C12_Heads(request.system_prompt))
         = <<cfg.mcp_servers[2].server_name>>

\* C13: in the web_search scenario the policy slot is always the last slot
\* of the system text: the caller's override when one is given, otherwise
\* the built-in policy; with no primary instructions and no override the
\* system text is exactly the built-in policy; the tool list always holds
\* exactly one tool, named "web_search".
C13_WebSearchPolicy ==
    (pc = "built" /\ cfg.scenario = "web_search") =>
        LET sp == request.system_prompt
            override == cfg.custom_web_search_context
            policy == IF override # <<>> THEN override ELSE WEB_SEARCH_CONTEXT
            instructions == ReplaceSpecialVars(self, cfg.agent_instructions, cfg.now)
        IN /\ SlotPresent(sp, policy)
           /\ sp = policy \/ EndsWith(sp, SEP \o policy)
           /\ sp = policy <=> instructions = <<>>
           /\ override # <<>> => ~WebPolicyPresent(sp)
           /\ (cfg.agent_instructions = <<>> /\ override = <<>>)
                => sp = WEB_SEARCH_CONTEXT
           /\ Len(request.tools) = 1
           /\ request.tools[1].function.name = "web_search"
           /\ request.tools[1].type = "function"

\* An override next to primary instructions: the system text ends with the
\* override and the built-in policy is not in it.
C13_Witness ==
    /\ pc = "built"
    /\ cfg.scenario = "web_search"
    /\ cfg.custom_web_search_context # <<>>
    /\ cfg.agent_instructions # <<>>
    /\ EndsWith(request.system_prompt, SEP \o cfg.custom_web_search_context)
    /\ ~WebPolicyPresent(request.system_prompt)
    /\ Len(request.tools) = 1

\* The four scenario tags build_request serves.
C14_Scenarios == {"files", "mcp", "web_search", "ui_agent"}

\* C14: a build_request call with a scenario tag other than files, mcp,
\* web_search and ui_agent ends in the error state and yields no
\* descriptor; a call with one of the four tags yields a descriptor.
C14_UnknownScenarioFails ==
    pc # "idle" =>
        /\ cfg.scenario \notin C14_Scenarios
             => (pc = "failed" /\ request = NoRequest)
        /\ cfg.scenario \in C14_Scenarios
             => (pc = "built" /\ request # NoRequest)

\* A call with the tag "agent" has failed.
C14_Witness ==
    /\ pc = "failed"
    /\ cfg.scenario = "agent"
    /\ cfg.user_message # <<>>
    /\ request = NoRequest

\* C15: a directive with none of the keys tool_calls, tool_result and
\* assistant appends no message and raises nothing, the loop goes on to the
\* next directive, and the returned message list has as many messages as
\* the initial one plus the number of recognized directives.
C15_UnrecognizedSkipped ==
    /\ [][(pc = "loop" /\ idx <= Len(turns) /\ ~IsRecognized(turns[idx])) =>
            /\ messages' = messages
            /\ idx' = idx + 1
            /\ pc' = "loop"]_vars
    /\ [](pc = "extended" =>
            Len(request.messages)
              = Len(before.messages) + Len(RecognizedAmong(turns, Len(turns))))

\* An unrecognized directive followed by a recognized one: one message
\* was appended, that of the second directive.
C15_Witness ==
    /\ pc = "extended"
    /\ Len(turns) = 2
    /\ ~IsRecognized(turns[1])
    /\ IsAssistantTextDirective(turns[2])
    /\ Len(request.messages) = Len(before.messages) + 1
    /\ request.messages[Len(request.messages)].content = turns[2].assistant

\* The ids of the invocations in the tool-call messages of a message list.
C16_InvocationIds(msgs) ==
    UNION {{msgs[k].tool_calls[i].id : i \in 1..Len(msgs[k].tool_calls)} :
              k \in {j \in 1..Len(msgs) : "tool_calls" \in DOMAIN msgs[j]}}

\* The tool message at position k answers no invocation before it.
C16_Dangling(msgs, k) ==
    /\ msgs[k].role = "tool"
    /\ msgs[k].tool_call_id \notin C16_InvocationIds(SubSeq(msgs, 1, k - 1))

\* C16: build_multi_turn_request does not compare correlation ids: a
\* tool-result directive whose tool_call_id is the id of no earlier
\* invocation is appended as a tool message with that id and its content,
\* like any other, and the loop goes on.
C16_DanglingResultAppended ==
    [][(/\ pc = "loop" /\ idx <= Len(turns)
        /\ IsToolResultDirective(turns[idx])
        /\ turns[idx].tool_result.tool_call_id \notin C16_InvocationIds(messages)) =>
          /\ messages' = Append(messages,
                                [role |-> "tool",
                                 content |-> turns[idx].tool_result.content,
                                 tool_call_id |-> turns[idx].tool_result.tool_call_id])
          /\ C16_Dangling(messages', Len(messages'))
          /\ idx' = idx + 1
          /\ pc' = "loop"]_vars

\* A returned conversation that holds a tool message answering no earlier
\* invocation, although an invocation with another id precedes it.
C16_Witness ==
    /\ pc = "extended"
    /\ \E k \in 1..Len(request.messages) :
          /\ C16_Dangling(request.messages, k)
          /\ C16_InvocationIds(SubSeq(request.messages, 1, k - 1)) # {}

\* C17: a call of build_multi_turn_request on a finite list of directives
\* always returns; until then each step takes the next directive of the
\* unchanged list, one at a time and in order, the return happens only
\* when the list is exhausted, and no step leaves the call for a failure
\* state.
C17_Terminates ==
    /\ (pc = "loop") ~> (pc = "extended")
    /\ [](pc = "loop" => idx \in 1..(Len(turns) + 1))
    /\ [][pc = "loop" =>
            \/ /\ idx <= Len(turns)
               /\ idx' = idx + 1
               /\ turns' = turns
               /\ pc' = "loop"
               /\ messages' = messages \o TurnMessages(turns[idx])
            \/ /\ idx = Len(turns) + 1
               /\ pc' = "extended"
               /\ request'.messages = messages]_vars

\* A call with MaxTurns directives, one of them unrecognized, has
\* returned after taking all of them.
C17_Witness ==
    /\ pc = "extended"
    /\ Len(turns) = MaxTurns
    /\ idx = MaxTurns + 1
    /\ \E k \in 1..Len(turns) : ~IsRecognized(turns[k])
    /\ Len(request.messages) = Len(before.messages) + MaxTurns - 1

\* C18: format_web_search_result is deterministic: calls on one builder
\* with the same result and the same turn number return the same text,
\* anchors included, whatever was formatted in between; the text is the
\* one a first call on a new builder returns.
C18_SameInputSameText ==
    /\ \A i, j \in 1..Len(history) :
          (history[i].turn = history[j].turn /\ history[i].result = history[j].result)
              => history[i].returned = history[j].returned
    /\ \A i \in 1..Len(history) :
          history[i].returned = FormatWebSearchResult(history[i].turn, history[i].result)

\* Three calls: the first and the third with the same hit and turn
\* number, the second with another result; the text holds an anchor.
C18_Witness ==
    /\ Len(history) = 3
    /\ history[1].turn = history[3].turn
    /\ history[1].result = history[3].result
    /\ history[2].result # history[1].result
    /\ history[2].returned # <<>>
    /\ AnchorMark \in Range(history[3].returned)
    /\ history[1].returned = history[3].returned

\* The header line of the item at position i (from 0) of a list, kind
\* being "Search" or "News".
C19_Header(kind, i, source) ==
    <<"# " \o kind \o " ", ToString(i), ": \"">>
    \o (IF source.title # <<>> THEN source.title ELSE <<"(no title)">>)
    \o <<"\"">>

\* The anchor tokens of a text, in order: the five atoms after each
\* "Anchor: " that starts a line.
C19_AnchorTokens(text) ==
    LET at == SelectSeq([i \in 1..Len(text) |-> i],
                        LAMBDA i : /\ text[i] = "Anchor: "
                                   /\ i > 1 /\ text[i - 1] = NL
                                   /\ i + 5 <= Len(text))
    IN [k \in 1..Len(at) |-> SubSeq(text, at[k] + 1, at[k] + 5)]

\* The anchor tokens expected for the items of the two lists, with the
\* given mark and the given kinds.
C19_Expected(mark, organicKind, newsKind) ==
    [k \in 1..Len(call.result.organic) |->
        <<mark, "turn", ToString(call.turn), organicKind, ToString(k - 1)>>]
    \o [k \in 1..Len(call.result.top_stories) |->
        <<mark, "turn", ToString(call.turn), newsKind, ToString(k - 1)>>]

\* Header, blank line, anchor line and the start of the URL line of every
\* organic and news item are in the text, one after the other.
C19_AnchorAfterHeader(organicKind, newsKind) ==
    /\ \A k \in 1..Len(call.result.organic) :
          Contains(returned,
                   C19_Header("Search", k - 1, call.result.organic[k])
                   \o <<NL, NL, "Anchor: ", AnchorMark, "turn", ToString(call.turn),
                         organicKind, ToString(k - 1), NL, "URL:">>)
    /\ \A k \in 1..Len(call.result.top_stories) :
          Contains(returned,
                   C19_Header("News", k - 1, call.result.top_stories[k])
                   \o <<NL, NL, "Anchor: ", AnchorMark, "turn", ToString(call.turn),
                         newsKind, ToString(k - 1), NL, "URL:">>)

\* C19 as stated: with turn number t every organic item and every news
\* item at position i is followed right after its header by the anchor
\* mark + "turn" + t + "search" + i, the mark being one character.
C19_AsStated ==
    pc = "formatted" =>
        /\ C19_AnchorAfterHeader("search", "search")
        /\ C19_AnchorTokens(returned) = C19_Expected(AnchorMark, "search", "search")
        /\ \A k \in 1..Len(C19_AnchorTokens(returned)) :
              Len(C19_AnchorTokens(returned)[k][1]) = 1

\* C19, amended: with turn number t the header line of the organic item
\* at position i is followed by a blank line and the line "Anchor: " +
\* mark + "turn" + t + "search" + i, that of the news item at position i by
\* a blank line and "Anchor: " + mark + "turn" + t + "news" + i, the mark
\* being the six characters backslash, u, e, 2, 0, 2; these are the only
\* item anchors of the text, in list order, organic before news.
C19_ItemAnchors ==
    pc = "formatted" =>
        /\ C19_AnchorAfterHeader("search", "news")
        /\ C19_AnchorTokens(returned) = C19_Expected("\\ue202", "search", "news")
        /\ \A k \in 1..Len(C19_AnchorTokens(returned)) :
              Len(C19_AnchorTokens(returned)[k][1]) = 6

\* Two organic and two news items formatted for turn 1.
C19_Witness ==
    /\ pc = "formatted"
    /\ call.turn = 1
    /\ Len(call.result.organic) = 2
    /\ Len(call.result.top_stories) = 2
    /\ Len(C19_AnchorTokens(returned)) = 4
    /\ C19_AnchorTokens(returned)[4] = <<"\\ue202", "turn", "1", "news", "1">>

\* The titles of the section lines of a text, in order.
C20_SectionTitles(text) ==
    LET at == SelectSeq([i \in 1..Len(text) |-> i],
                        LAMBDA i : /\ text[i] = "=== "
                                   /\ i + 1 <= Len(text)
                                   /\ i = 1 \/ text[i - 1] = NL)
    IN [k \in 1..Len(at) |-> text[at[k] + 1]]

\* The section titles of the non-empty categories of a result, in the
\* order organic, news, knowledge graph, answer box, people-also-ask.
C20_ExpectedTitles(result) ==
    (IF Len(result.organic) > 0 THEN <<"Web Results, Turn ">> ELSE <<>>)
    \o (IF Len(result.top_stories) > 0 THEN <<"News Results">> ELSE <<>>)
    \o (IF DOMAIN result.knowledge_graph # {} THEN <<"Knowledge Graph">> ELSE <<>>)
    \o (IF DOMAIN result.answer_box # {} THEN <<"Answer Box">> ELSE <<>>)
    \o (IF Len(result.people_also_ask) > 0 THEN <<"People Also Ask">> ELSE <<>>)

\* C20: the text has one section for each non-empty category and none
\* for an empty one, in the order organic results, news, knowledge graph,
\* answer box, people-also-ask, for every combination of empty and
\* non-empty categories; with every category empty the text is empty.
C20_SectionsInOrder ==
    pc = "formatted" =>
        /\ C20_SectionTitles(returned) = C20_ExpectedTitles(call.result)
        /\ returned = <<>> <=> C20_ExpectedTitles(call.result) = <<>>

\* News, answer box and people-also-ask without organic results and
\* knowledge graph: three sections.
C20_Witness ==
    /\ pc = "formatted"
    /\ call.result.organic = <<>>
    /\ call.result.top_stories # <<>>
    /\ DOMAIN call.result.knowledge_graph = {}
    /\ DOMAIN call.result.answer_box # {}
    /\ call.result.people_also_ask # <<>>
    /\ C20_SectionTitles(returned) = <<"News Results", "Answer Box", "People Also Ask">>

\* The positions of a text at which one of the given atoms starts a line,
\* in order.
LineStarts(text, atoms) ==
    SelectSeq([i \in 1..Len(text) |-> i],
              LAMBDA i : text[i] \in atoms /\ (i = 1 \/ text[i - 1] = NL))

\* The part of a text from each of the positions starts to the next
\* position of stops behind it, or to the end of the text.
Segments(text, starts, stops) ==
    [k \in 1..Len(starts) |->
        LET later == {q \in Range(stops) : q > starts[k]}
            last == IF later = {} THEN Len(text)
                    ELSE (CHOOSE q \in later : \A r \in later : q <= r) - 1
        IN SubSeq(text, starts[k], last)]

\* The parts of the returned text that belong to the organic and the news
\* items, in order: each from its header line to the next header line or
\* section line.
C21_ItemTexts(text) ==
    Segments(text, LineStarts(text, {"# Search ", "# News "}),
             LineStarts(text, {"# Search ", "# News ", "=== "}))

\* The highlight blocks of the text of one item, each from its heading to
\* the next heading.
C21_HighlightBlocks(item_text) ==
    Segments(item_text, LineStarts(item_text, {"### Highlight "}),
             LineStarts(item_text, {"### Highlight "}))

\* The reference anchors of a highlight block: the five atoms after each
\* "- Anchor: ".
C21_ReferenceAnchors(block) ==
    LET at == SelectSeq([i \in 1..Len(block) |-> i],
                        LAMBDA i : block[i] = "- Anchor: " /\ i + 5 <= Len(block))
    IN [k \in 1..Len(at) |-> SubSeq(block, at[k] + 1, at[k] + 5)]

\* The text of an item holds one highlight block per highlight of the
\* source, numbered from 1 in input order, and each block one "- link#"
\* line and one anchor mark + "turn" + t + "ref" + index per reference.
C21_HighlightsRendered(item_text, source, turn) ==
    \A blocks \in {C21_HighlightBlocks(item_text)} :
        /\ Len(blocks) = Len(source.highlights)
        /\ \A h \in 1..Len(blocks) :
              /\ blocks[h][2] = ToString(h)
              /\ Contains(blocks[h], Strip(source.highlights[h].text))
              /\ Len(LineStarts(blocks[h], {"- link#"}))
                    = Len(source.highlights[h].references)
              /\ C21_ReferenceAnchors(blocks[h])
                    = [r \in 1..Len(source.highlights[h].references) |->
                          <<AnchorMark, "turn", ToString(turn), "ref", ToString(r - 1)>>]

\* C21 as stated: for every organic item and every news item that has
\* k >= 1 highlights the text holds k highlight blocks for that item,
\* numbered 1..k in input order, and each highlight with references lists
\* one reference line per reference, each with an anchor mark + "turn" + t
\* + "ref" + index.
C21_AsStated ==
    pc = "formatted" =>
        \A items \in {call.result.organic \o call.result.top_stories} :
        \A texts \in {C21_ItemTexts(returned)} :
            /\ Len(texts) = Len(items)
            /\ \A j \in 1..Len(items) :
                  Len(items[j].highlights) >= 1
                      => C21_HighlightsRendered(texts[j], items[j], call.turn)

\* The part of C21 the code keeps: the highlights of every organic item
\* are rendered as stated, and the text of a news item holds no highlight
\* block and no reference anchor, whatever highlights the item has.
C21_OrganicOnly ==
    pc = "formatted" =>
        \A texts \in {C21_ItemTexts(returned)} :
            /\ Len(texts) = Len(call.result.organic) + Len(call.result.top_stories)
            /\ \A j \in 1..Len(call.result.organic) :
                  C21_HighlightsRendered(texts[j], call.result.organic[j], call.turn)
            /\ \A j \in 1..Len(call.result.top_stories) :
                  /\ C21_HighlightBlocks(texts[Len(call.result.organic) + j]) = <<>>
                  /\ "- Anchor: " \notin Range(texts[Len(call.result.organic) + j])

\* A news item with two highlights, the first with two references, was
\* formatted next to an organic item without highlights: the text holds no
\* highlight block at all.
C21_Witness ==
    /\ pc = "formatted"
    /\ Len(call.result.organic) = 1
    /\ call.result.organic[1].highlights = <<>>
    /\ Len(call.result.top_stories) = 1
    /\ Len(call.result.top_stories[1].highlights) = 2
    /\ Len(call.result.top_stories[1].highlights[1].references) = 2
    /\ LineStarts(returned, {"### Highlight "}) = <<>>
    /\ Len(C21_ItemTexts(returned)) = 2

\* The numbers of the blocks of a file search text, in order: the atom
\* after each "[" that starts a line.
C22_BlockNumbers(text) ==
    [k \in 1..Len(LineStarts(text, {"["})) |-> text[LineStarts(text, {"["})[k] + 1]]

\* The block of the i-th match as it stands in the text: the line with
\* number, filename and page, the relevance line and the quoted content.
C22_Block(i, match) ==
    <<"[", ToString(i), "] From: ">> \o match.filename
    \o (IF match.page # <<>> THEN <<" (page ">> \o match.page \o <<")">> ELSE <<>>)
    \o <<NL, "Relevance: ", FormatScore(match.relevance), NL, "\"">>
    \o match.content \o <<"\"">>

RECURSIVE C22_Blocks(_, _)
\* The blocks of the first n matches, a blank line between two of them.
C22_Blocks(matches, n) ==
    IF n = 0 THEN <<>>
    ELSE IF n = 1 THEN C22_Block(1, matches[1])
    ELSE C22_Blocks(matches, n - 1) \o <<NL, NL>> \o C22_Block(n, matches[n])

\* C22: format_file_search_result returns exactly the sentence "No
\* relevant passages found in the attached files.", with no white space
\* before or after it, when the match list is empty; otherwise the text
\* starts with "Found N relevant passages:", N being the number of matches,
\* followed by exactly N blocks numbered 1..N in the input order of the
\* matches.
C22_FileSearchText ==
    pc = "formatted" =>
        \A matches \in {call.result.matches} :
            /\ matches = <<>>
                 => returned = <<"No relevant passages found in the attached files.">>
            /\ matches # <<>>
                 => /\ StartsWith(returned, <<"Found ", ToString(Len(matches)),
                                              " relevant passages:", NL, NL, "[", "1">>)
                    /\ C22_BlockNumbers(returned)
                         = [k \in 1..Len(matches) |-> ToString(k)]
                    /\ returned = <<"Found ", ToString(Len(matches)),
                                    " relevant passages:", NL, NL>>
                                  \o C22_Blocks(matches, Len(matches))

\* Three matches, the second with a page and the last with a content of
\* two lines: the text starts with "Found 3 relevant passages:" and holds
\* the blocks 1, 2 and 3.
C22_Witness ==
    /\ pc = "formatted"
    /\ Len(call.result.matches) = 3
    /\ call.result.matches[1].page = <<>>
    /\ call.result.matches[2].page # <<>>
    /\ NL \in Range(call.result.matches[3].content)
    /\ StartsWith(returned, <<"Found ", "3", " relevant passages:">>)
    /\ C22_BlockNumbers(returned) = <<"1", "2", "3">>

\* The placeholders replace_special_vars recognizes, in lower case.
RecognizedTokens ==
    {"{{current_date}}", "{{current_datetime}}", "{{iso_datetime}}", "{{current_user}}"}

\* No atom of the text is a recognized placeholder, in any letter case.
NoRecognizedToken(text) ==
    \A i \in 1..Len(text) : Lower(text[i]) \notin RecognizedTokens

C24_SundayZeroDigit == <<"1", "2", "3", "4", "5", "6", "0">>

\* C24: the weekday digit W the date and the date-time placeholder render
\* is one digit in 0..6 with Sunday = 0, Monday = 1, ..., Saturday = 6:
\* for each of the seven days of the week, numbered Monday = 0, ...,
\* Sunday = 6 by the clock, the text is "YYYY-MM-DD (W)" and
\* "YYYY-MM-DD HH:MM:SS (W)" with W the digit of (number + 1) mod 7.
C24_WeekdayDigit ==
    \A i \in 1..Len(history) :
        \A now \in {history[i].now} : \A digit \in {C24_SundayZeroDigit[now.weekday + 1]} :
            /\ Len(digit) = 1
            /\ digit = ToString((now.weekday + 1) % 7)
            /\ history[i].text = <<"{{current_date}}">>
                 => history[i].returned = <<now.date, " (", digit, ")">>
            /\ history[i].text = <<"{{current_datetime}}">>
                 => history[i].returned = <<now.date, " ", now.time, " (", digit, ")">>
            /\ \A k \in 1..Len(history[i].text) :
                  Lower(history[i].text[k]) \in {"{{current_date}}", "{{current_datetime}}"}
                     => Contains(history[i].returned, <<" (", digit, ")">>)

\* The date placeholder was resolved on Sunday 7 January 2024, the day
\* the clock numbers 6: the digit is 0.
C24_Witness ==
    /\ Len(history) = 1
    /\ history[1].now.weekday = 6
    /\ history[1].now.date = "2024-01-07"
    /\ history[1].text = <<"{{current_date}}">>
    /\ self.user_name = <<"User">>
    /\ returned = <<"2024-01-07", " (", "0", ")">>

\* C25: for every descriptor reached by a build followed by any sequence
\* of extensions, to_openai_format returns a dict with model, messages and
\* temperature that holds the keys tools and tool_choice (= "auto") if and
\* only if the tool list of the descriptor is non-empty; the exported
\* messages are the message list of the descriptor.
C25_ExportedKeys ==
    pc = "exported" =>
        /\ {"model", "messages", "temperature"} \subseteq DOMAIN exported
        /\ DOMAIN exported \subseteq {"model", "messages", "temperature", "tools", "tool_choice"}
        /\ "tools" \in DOMAIN exported <=> request.tools # <<>>
        /\ "tool_choice" \in DOMAIN exported <=> request.tools # <<>>
        /\ "tools" \in DOMAIN exported
              => (exported.tools = request.tools /\ exported.tool_choice = "auto")
        /\ exported.messages = request.messages
        /\ exported.model = request.model
        /\ exported.temperature = request.temperature

\* A descriptor of the mcp scenario without servers, extended by two
\* messages, was exported: the dict has no tools and no tool_choice.
C25_Witness ==
    /\ pc = "exported"
    /\ cfg.scenario = "mcp"
    /\ request.tools = <<>>
    /\ Len(request.messages) = 4
    /\ DOMAIN exported = {"model", "messages", "temperature"}
    /\ Len(exported.messages) = 4

\* C27: build_multi_turn_request with an empty directive list returns a
\* descriptor whose system_prompt, message list, tools, model and
\* temperature equal those of the descriptor passed in.
C27_EmptyListEqual ==
    (pc = "extended" /\ turns = <<>>) =>
        /\ request.system_prompt = before.system_prompt
        /\ request.messages = before.messages
        /\ request.tools = before.tools
        /\ request.model = before.model
        /\ request.temperature = before.temperature

\* An empty list passed with a descriptor that has tools and was extended
\* before.
C27_Witness ==
    /\ pc = "extended"
    /\ turns = <<>>
    /\ idx = 1
    /\ before.tools # <<>>
    /\ Len(before.messages) > 2
    /\ request = before

\* C28: in every descriptor reached by build_request and any number of
\* extensions the first message has role system and the system_prompt
\* field as content, the second has role user, and no later message has
\* role system or user.
C28_RolesOfMessages ==
    pc \in {"built", "extended"} =>
        /\ Len(request.messages) >= 2
        /\ request.messages[1].role = "system"
        /\ request.messages[1].content = request.system_prompt
        /\ request.messages[2].role = "user"
        /\ \A i \in 3..Len(request.messages) :
              request.messages[i].role \notin {"system", "user"}

\* A descriptor extended by a list that holds a directive with the key
\* user next to recognized ones.
C28_Witness ==
    /\ pc = "extended"
    /\ \E i \in 1..Len(turns) : "user" \in DOMAIN turns[i]
    /\ Len(request.messages) >= 4
    /\ request.messages[3].role \in {"assistant", "tool"}
    /\ request.messages[1].content = request.system_prompt

\* C30: one directive appends at most one message; the shapes are tried in
\* the order tool_calls, tool_result, assistant and only the first match is
\* applied: with tool_calls the one message is the tool-call message (the
\* text under assistant is dropped), else with tool_result it is the tool
\* message, else with assistant it is the assistant text.
C30_FirstShapeOnly ==
    [][(pc = "loop" /\ idx <= Len(turns) /\ idx' = idx + 1) =>
         \E turn \in {turns[idx]} :
            /\ Len(messages') <= Len(messages) + 1
            /\ SubSeq(messages', 1, Len(messages)) = messages
            /\ "tool_calls" \in DOMAIN turn =>
                  /\ Len(messages') = Len(messages) + 1
                  /\ "tool_calls" \in DOMAIN messages'[Len(messages')]
                  /\ messages'[Len(messages')].role = "assistant"
                  /\ Len(messages'[Len(messages')].tool_calls) = Len(turn.tool_calls)
                  /\ messages'[Len(messages')].content = Get(turn, "content", <<>>)
            /\ ("tool_calls" \notin DOMAIN turn /\ "tool_result" \in DOMAIN turn) =>
                  /\ Len(messages') = Len(messages) + 1
                  /\ messages'[Len(messages')] =
                        [role |-> "tool", content |-> turn.tool_result.content,
                         tool_call_id |-> turn.tool_result.tool_call_id]
            /\ (DOMAIN turn \cap {"tool_calls", "tool_result"} = {}
                    /\ "assistant" \in DOMAIN turn) =>
                  /\ Len(messages') = Len(messages) + 1
                  /\ messages'[Len(messages')] =
                        [role |-> "assistant", content |-> turn.assistant]]_vars

\* A list of two directives, one with tool_calls and assistant and one with
\* tool_result and assistant, has been applied: two messages were appended,
\* a tool-call message without the text and a tool message.
C30_Witness ==
    /\ pc = "loop"
    /\ idx = 3
    /\ Len(turns) = 2
    /\ DOMAIN turns[1] = {"tool_calls", "assistant"}
    /\ DOMAIN turns[2] = {"tool_result", "assistant"}
    /\ Len(messages) = Len(before.messages) + 2
    /\ "tool_calls" \in DOMAIN messages[Len(messages) - 1]
    /\ messages[Len(messages) - 1].content = <<>>
    /\ messages[Len(messages)].role = "tool"

\* Every anchor token of a text, in order: the anchor mark and the four
\* atoms behind it, for item anchors and reference anchors alike.  Each
\* cited thing (item or reference) gets one anchor line, so different
\* positions of this list are anchors of different things.
C29_AllAnchorTokens(text) ==
    LET at == SelectSeq([i \in 1..Len(text) |-> i],
                        LAMBDA i : text[i] = AnchorMark /\ i + 4 <= Len(text))
    IN [k \in 1..Len(at) |-> SubSeq(text, at[k], at[k] + 4)]

\* The number of anchors a result is given: one per organic item, news
\* item and reference of a highlight of an organic item.
RECURSIVE C29_ReferenceCount(_)
C29_ReferenceCount(sources) ==
    IF sources = <<>> THEN 0
    ELSE LET hs == sources[1].highlights
             counts == [h \in 1..Len(hs) |-> Len(hs[h].references)]
             RECURSIVE Sum(_)
             Sum(s) == IF s = <<>> THEN 0 ELSE s[1] + Sum(Tail(s))
         IN Sum(counts) + C29_ReferenceCount(Tail(sources))

\* C29 as stated: within the text of one format_web_search_result call any
\* two anchor tokens emitted for different cited things (organic items,
\* news items, references under the same or different highlights or
\* items) are different tokens.
C29_AsStated ==
    pc = "formatted" =>
        \A tokens \in {C29_AllAnchorTokens(returned)} :
            \A i, j \in 1..Len(tokens) : i # j => tokens[i] # tokens[j]

\* The anchors of the organic and news items of one text are pairwise
\* different, and so are the anchors of the references of one highlight.
C29_ItemAnchorsDistinct ==
    pc = "formatted" =>
        /\ \A tokens \in {C19_AnchorTokens(returned)} :
              \A i, j \in 1..Len(tokens) : i # j => tokens[i] # tokens[j]
        /\ \A texts \in {C21_ItemTexts(returned)} :
              \A k \in 1..Len(texts) :
                 \A blocks \in {C21_HighlightBlocks(texts[k])} :
                    \A h \in 1..Len(blocks) :
                       \A refs \in {C21_ReferenceAnchors(blocks[h])} :
                          \A i, j \in 1..Len(refs) : i # j => refs[i] # refs[j]

\* One organic item with two highlights, the first with two references
\* and the second with one, formatted for turn 1: three reference anchors
\* and one item anchor, and the first reference of each highlight carries
\* the token mark + turn1ref0.
C29_Witness ==
    /\ pc = "formatted"
    /\ call.turn = 1
    /\ Len(call.result.organic) = 1
    /\ Len(call.result.top_stories) = 0
    /\ Len(call.result.organic[1].highlights) = 2
    /\ C29_ReferenceCount(call.result.organic) = 3
    /\ \E tokens \in {C29_AllAnchorTokens(returned)} :
          /\ Len(tokens) = 4
          /\ tokens[2] = <<AnchorMark, "turn", "1", "ref", "0">>
          /\ tokens[4] = tokens[2]

\* What the call of a frame returns when it runs alone on a builder with
\* the display name of self, the shared descriptor being the one
\* build_request returned for cfg.
C26_Alone(f) ==
    CASE f.op = "build_request" -> BuildRequestResult(self, f.cfg).value
      [] f.op = "build_multi_turn_request" ->
            BuildMultiTurnRequest(BuildRequestResult(self, cfg).value, f.turns)
      [] f.op = "format_web_search_result" ->
            FormatWebSearchResult(f.call.turn, f.call.result)
      [] OTHER -> FormatFileSearchResult([matches |-> f.matches])

\* What the call of a frame returned: a descriptor or a text.
C26_Result(f) ==
    IF f.op \in {"build_request", "build_multi_turn_request"}
    THEN f.request ELSE f.returned

\* C26: for any interleaving of build_request, build_multi_turn_request
\* and formatter calls made by different callers on one builder, each
\* caller gets the result it would get running alone, and no step of a
\* call writes the builder (its display name) or the descriptor the
\* callers share.
C26_SameAsAlone ==
    /\ [](\A c \in Callers :
             callers[c].pc = "returned" => C26_Result(callers[c]) = C26_Alone(callers[c]))
    /\ [][self' = self /\ (pc = "built" => request' = request)]_vars

\* Two calls that were in progress at the same time have returned: an
\* extension by two directives and a web search formatting.
C26_Witness ==
    /\ pc = "built"
    /\ \E c, d \in Callers :
          /\ callers[c].pc = "returned" /\ callers[d].pc = "returned"
          /\ callers[c].concurrent /\ callers[d].concurrent
          /\ callers[c].op = "build_multi_turn_request"
          /\ Len(callers[c].turns) = 2
          /\ Len(callers[c].request.messages) = Len(request.messages) + 2
          /\ callers[d].op = "format_web_search_result"
          /\ callers[d].returned # <<>>

====
